---- MODULE Spec2Model ----
(***************************************************************************)
(* State-machine model of the NES emulator core of Roms-lab/Nexus:         *)
(*   Controller / Input      src/Games/NES/src/input.js   (lines 1-198)    *)
(*   PPU                     src/Games/NES/src/input.js   (lines 200-437)  *)
(*   Memory (CPU bus)        src/unnamed/part_000                          *)
(*   CPU                     src/Games/NES/src/cpu.js                      *)
(*   APU, Emulator           src/Games/NES/src/apu.js                      *)
(* Every subsystem has its own specification (SpecInput, SpecBus, ...);    *)
(* the variables of the other subsystems keep their constructed values.    *)
(***************************************************************************)
EXTENDS Integers, Sequences, FiniteSets, TLC

VARIABLES
    ctl,        \* Input.player1 / Input.player2: [buttons, strobe, shiftRegister]
    ram,        \* Memory.ram (Uint8Array(0x0800)); only the non-zero-filled cells are kept
    ppu,        \* PPU registers, latches and timing
    apu,        \* APU frame counter, channel enables and DMC channel
    cpu,        \* CPU registers A, X, Y, SP, PC, status
    rom,        \* cartridge PRG bytes seen by cartridge.cpuRead
    emu,        \* Emulator: _nmiPrev, _frameCounter, runFrame's locals and position
    plug,       \* what the plugged components expose: IRQ lines, whether the PPU reports frames
    hist        \* history of the last operation (observations used by the properties)

vars == <<ctl, ram, ppu, apu, cpu, rom, emu, plug, hist>>

(***************************************************************************)
(* Bit operations of JavaScript on the non-negative values that occur.     *)
(***************************************************************************)
RECURSIVE And(_, _)
And(a, b) ==
    IF a = 0 \/ b = 0 THEN 0
    ELSE (a % 2) * (b % 2) + 2 * And(a \div 2, b \div 2)

RECURSIVE Or(_, _)
Or(a, b) ==
    IF a = 0 THEN b
    ELSE IF b = 0 THEN a
    ELSE (IF a % 2 = 1 \/ b % 2 = 1 THEN 1 ELSE 0) + 2 * Or(a \div 2, b \div 2)

RECURSIVE Pow2(_)
Pow2(n) == IF n = 0 THEN 1 ELSE 2 * Pow2(n - 1)

RECURSIVE Xor(_, _)
Xor(a, b) ==
    IF a = 0 THEN b
    ELSE IF b = 0 THEN a
    ELSE ((a + b) % 2) + 2 * Xor(a \div 2, b \div 2)

Shl(a, n) == a * Pow2(n)
Shr(a, n) == a \div Pow2(n)
\* x & ~mask
AndNot(x, mask) == x - And(x, mask)
\* value of a typed-array cell that was never written
CellOf(mem, i) == IF i \in DOMAIN mem THEN mem[i] ELSE 0
\* mem with cell i set to v (a cell holding 0 is not kept)
Store(mem, i, v) ==
    IF v = 0 THEN [j \in DOMAIN mem \ {i} |-> mem[j]]
    ELSE [j \in DOMAIN mem \cup {i} |-> IF j = i THEN v ELSE mem[j]]

(***************************************************************************)
(* Controller and Input (input.js)                                         *)
(***************************************************************************)
ButtonOrder == <<"A", "B", "Select", "Start", "Up", "Down", "Left", "Right">>
ButtonNames == {ButtonOrder[i] : i \in 1..8}
Ports == {1, 2}

\* Controller constructor: no button pressed, strobe 0, shift register 0
NewController ==
    [buttons |-> [b \in ButtonNames |-> 0], strobe |-> 0, shiftRegister |-> 0]

Pressed(c, name) == IF c.buttons[name] # 0 THEN 1 ELSE 0

\* (mutant of Reload: Right is bit 0 ... A is bit 7)
ReloadMsbFirst(c) ==
    [c EXCEPT !.shiftRegister =
        Shl(Pressed(c, "A"), 7) + Shl(Pressed(c, "B"), 6)
        + Shl(Pressed(c, "Select"), 5) + Shl(Pressed(c, "Start"), 4)
        + Shl(Pressed(c, "Up"), 3) + Shl(Pressed(c, "Down"), 2)
        + Shl(Pressed(c, "Left"), 1) + Pressed(c, "Right")]

\* Controller.reload: A is bit 0 ... Right is bit 7
Reload(c) ==
    [c EXCEPT !.shiftRegister =
        Or(Pressed(c, "A"),
        Or(Shl(Pressed(c, "B"), 1),
        Or(Shl(Pressed(c, "Select"), 2),
        Or(Shl(Pressed(c, "Start"), 3),
        Or(Shl(Pressed(c, "Up"), 4),
        Or(Shl(Pressed(c, "Down"), 5),
        Or(Shl(Pressed(c, "Left"), 6),
           Shl(Pressed(c, "Right"), 7))))))))]

\* Controller.write(value)
ControllerWrite(c, value) ==
    LET s == [c EXCEPT !.strobe = And(value, 1)]
    IN  IF s.strobe # 0 THEN Reload(s) ELSE s

\* Controller.read(): the returned value and the controller afterwards
ControllerRead(c) ==
    IF c.strobe # 0
    THEN [value |-> Or(Pressed(c, "A"), 64), c |-> c]
    ELSE [value |-> Or(And(c.shiftRegister, 1), 64),
          c |-> [c EXCEPT !.shiftRegister = Shr(c.shiftRegister, 1)]]

\* (mutants of ControllerSetButton: no reload while the strobe is high; a
\* reload whatever the strobe)
ControllerSetButtonNoReload(c, name, pressed) ==
    IF name \in ButtonNames
    THEN [c EXCEPT !.buttons[name] = IF pressed THEN 1 ELSE 0]
    ELSE c
ControllerSetButtonReloads(c, name, pressed) ==
    IF name \in ButtonNames
    THEN Reload([c EXCEPT !.buttons[name] = IF pressed THEN 1 ELSE 0])
    ELSE c

\* Controller.setButton(name, pressed)
ControllerSetButton(c, name, pressed) ==
    IF name \in ButtonNames
    THEN LET s == [c EXCEPT !.buttons[name] = IF pressed THEN 1 ELSE 0]
         IN  IF s.strobe # 0 THEN Reload(s) ELSE s
    ELSE c

\* Input constructor: the default key maps of player1 and player2
KeyMap1 ==
    [code \in {"KeyZ", "KeyX", "Enter", "ShiftLeft",
               "ArrowUp", "ArrowDown", "ArrowLeft", "ArrowRight"} |->
        CASE code = "KeyZ" -> "A"
          [] code = "KeyX" -> "B"
          [] code = "Enter" -> "Start"
          [] code = "ShiftLeft" -> "Select"
          [] code = "ArrowUp" -> "Up"
          [] code = "ArrowDown" -> "Down"
          [] code = "ArrowLeft" -> "Left"
          [] code = "ArrowRight" -> "Right"]

KeyMap2 ==
    [code \in {"Numpad1", "Numpad2", "NumpadEnter", "Numpad0",
               "Numpad8", "Numpad5", "Numpad4", "Numpad6"} |->
        CASE code = "Numpad1" -> "A"
          [] code = "Numpad2" -> "B"
          [] code = "NumpadEnter" -> "Start"
          [] code = "Numpad0" -> "Select"
          [] code = "Numpad8" -> "Up"
          [] code = "Numpad5" -> "Down"
          [] code = "Numpad4" -> "Left"
          [] code = "Numpad6" -> "Right"]

\* Input.handleKey(code, pressed)
InputHandleKey(cs, code, pressed) ==
    LET c1 == IF code \in DOMAIN KeyMap1
              THEN ControllerSetButton(cs[1], KeyMap1[code], pressed) ELSE cs[1]
        c2 == IF code \in DOMAIN KeyMap2
              THEN ControllerSetButton(cs[2], KeyMap2[code], pressed) ELSE cs[2]
    IN  [p \in Ports |-> IF p = 1 THEN c1 ELSE c2]

\* Input.write(addr, value): only 0x4016 strobes, and it strobes both players
InputWrite(cs, addr, value) ==
    IF addr = \h4016
    THEN [p \in Ports |-> ControllerWrite(cs[p], value)]
    ELSE cs

\* Input.read(addr): the returned value and both controllers afterwards
InputRead(cs, addr) ==
    LET From(port, res) == [value |-> res.value, cs |-> [cs EXCEPT ![port] = res.c]]
    IN  IF addr = \h4016 THEN From(1, ControllerRead(cs[1]))
        ELSE IF addr = \h4017 THEN From(2, ControllerRead(cs[2]))
        ELSE [value |-> 0, cs |-> cs]

(***************************************************************************)
(* Cartridge.  No cartridge class is part of the sources; the bus only     *)
(* calls cartridge.cpuRead / cpuWrite.  Mapper 0 (NROM) as specified: PRG  *)
(* is read-only and is addressed here by its CPU address.                  *)
(***************************************************************************)
CartCpuRead(r, addr) == CellOf(r.prg, addr)
CartCpuWrite(r, addr, value) == r

(***************************************************************************)
(* PPU (input.js, class PPU)                                               *)
(***************************************************************************)
\* PPU constructor
NewPPU ==
    [ctrl |-> 0, mask |-> 0, status |-> 0, oamAddr |-> 0,
     vram |-> <<>>, oam |-> <<>>,
     cycle |-> 0, scanline |-> 0,
     fineX |-> 0, writeToggle |-> 0, tempAddr |-> 0, vramAddr |-> 0,
     sprite0Hit |-> FALSE]

VramInc(p) == IF And(p.ctrl, 4) # 0 THEN 32 ELSE 1

\* PPU.performDMA(page): cpuMemory is the Memory object, which has no indexed
\* cells, so every cpuMemory[base + i] is undefined and oam[i] becomes 0
PerformDMA(p, page) == [p EXCEPT !.oam = <<>>]

\* PPU.readRegister(addr): the returned value and the PPU afterwards
PPUreadRegister(p, r, addr) ==
    IF addr = \h2002
    THEN [value |-> p.status,
          p |-> [p EXCEPT !.status = And(p.status, \h7F), !.writeToggle = 0]]
    ELSE IF addr = \h2007
    THEN [value |-> CellOf(r.chr, And(p.vramAddr, \h1FFF)),
          p |-> [p EXCEPT !.vramAddr = p.vramAddr + VramInc(p)]]
    ELSE [value |-> 0, p |-> p]

\* PPU.writeRegister(addr, value)
PPUwriteRegister(p, addr, value) ==
    CASE addr = \h2000 -> [p EXCEPT !.ctrl = value]
      [] addr = \h2001 -> [p EXCEPT !.mask = value]
      [] addr = \h2003 -> [p EXCEPT !.oamAddr = value]
      [] addr = \h2004 ->
            [p EXCEPT !.oam = IF p.oamAddr < 256
                              THEN Store(p.oam, p.oamAddr, value) ELSE p.oam,
                      !.oamAddr = p.oamAddr + 1]
      [] addr = \h2005 ->
            IF p.writeToggle = 0
            THEN [p EXCEPT !.fineX = And(value, 7),
                           !.tempAddr = Or(And(p.tempAddr, \h7FE0), Shr(value, 3)),
                           !.writeToggle = 1]
            ELSE [p EXCEPT !.tempAddr =
                               Or(Or(And(p.tempAddr, \h0C1F), Shl(And(value, \hF8), 2)),
                                  Shl(And(value, 7), 12)),
                           !.writeToggle = 0]
      [] addr = \h2006 ->
            IF p.writeToggle = 0
            THEN [p EXCEPT !.tempAddr = Or(And(p.tempAddr, \h00FF), Shl(value, 8)),
                           !.writeToggle = 1]
            ELSE [p EXCEPT !.tempAddr = Or(And(p.tempAddr, \hFF00), value),
                           !.vramAddr = Or(And(p.tempAddr, \hFF00), value),
                           !.writeToggle = 0]
      [] addr = \h2007 ->
            [p EXCEPT !.vram = Store(p.vram, And(p.vramAddr, \h3FFF), value),
                      !.vramAddr = p.vramAddr + VramInc(p)]
      [] addr = \h4014 -> PerformDMA(p, value)
      [] OTHER -> p

\* PPU.renderFrame, as far as it changes PPU state: renderSprites raises
\* status bit 6 and sprite0Hit when an opaque pixel of sprite 0 lies on a drawn
\* pixel; whether it does is decided by the cartridge's CHR data (r.sprite0)
RenderFrame(p, r) ==
    IF r.sprite0
    THEN [p EXCEPT !.status = Or(p.status, \h40), !.sprite0Hit = TRUE]
    ELSE [p EXCEPT !.sprite0Hit = FALSE]

\* (mutant of PPUstep: scanline 241 does not raise the VBlank flag)
PPUstepNoVblank(p, r) ==
    LET c1 == [p EXCEPT !.cycle = p.cycle + 1]
    IN  IF c1.cycle > 340
        THEN LET s1 == [c1 EXCEPT !.cycle = 0, !.scanline = c1.scanline + 1]
             IN  IF s1.scanline >= 262
                 THEN [s1 EXCEPT !.scanline = 0, !.status = And(s1.status, \h7F)]
                 ELSE s1
        ELSE c1

\* PPU.step(): one dot
PPUstep(p, r) ==
    LET c1 == [p EXCEPT !.cycle = p.cycle + 1]
    IN  IF c1.cycle > 340
        THEN LET s1 == [c1 EXCEPT !.cycle = 0, !.scanline = c1.scanline + 1]
                 s2 == IF s1.scanline = 241
                       THEN RenderFrame([s1 EXCEPT !.status = Or(s1.status, \h80)], r)
                       ELSE s1
             IN  IF s2.scanline >= 262
                 THEN [s2 EXCEPT !.scanline = 0, !.status = And(s2.status, \h7F)]
                 ELSE s2
        ELSE c1

(***************************************************************************)
(* APU (apu.js, classes APU and DMCChannel; the pulse, triangle and noise  *)
(* channels keep only their enabled flag)                                  *)
(***************************************************************************)
\* DMCChannel constructor (irqEnabled and loop are unset, which reads as false)
NewDMC ==
    [enabled |-> FALSE, dmcIRQ |-> FALSE,
     sampleAddress |-> \hC000, sampleLength |-> 1, currentLength |-> 0,
     shiftRegister |-> 0, bitsRemaining |-> 0, bufferEmpty |-> TRUE,
     outputLevel |-> 64, irqEnabled |-> FALSE, loop |-> FALSE, rate |-> 0,
     currentAddress |-> 0, sampleBuffer |-> 0]

\* APU constructor
NewAPU ==
    [cycles |-> 0, frameStep |-> 0, frameCounterMode |-> 0, frameIRQ |-> FALSE,
     pulse1 |-> FALSE, pulse2 |-> FALSE, triangle |-> FALSE, noise |-> FALSE,
     dmc |-> NewDMC]

\* DMCChannel.write(addr, value)
DMCwrite(d, addr, value) ==
    CASE addr = \h4010 -> [d EXCEPT !.irqEnabled = And(value, \h80) # 0,
                                    !.loop = And(value, \h40) # 0,
                                    !.rate = And(value, \h0F)]
      [] addr = \h4011 -> [d EXCEPT !.outputLevel = And(value, \h7F)]
      [] addr = \h4012 -> [d EXCEPT !.sampleAddress = \hC000 + value * 64]
      [] addr = \h4013 -> [d EXCEPT !.sampleLength = value * 16 + 1]
      [] OTHER -> d

\* DMCChannel.restartSample()
DMCrestartSample(d) ==
    [d EXCEPT !.currentAddress = d.sampleAddress, !.currentLength = d.sampleLength]

\* DMCChannel.setEnabled(on)
DMCsetEnabled(d, on) ==
    LET e == [d EXCEPT !.enabled = (on # 0)]
    IN  IF e.enabled /\ e.currentLength = 0 THEN DMCrestartSample(e) ELSE e

\* fetchSample() raising the IRQ at the end of a looping sample too
DMCfetchSampleIrqOnLoop(d, byte) ==
    IF d.currentLength > 0
    THEN LET a1 == d.currentAddress + 1
             f == [d EXCEPT !.sampleBuffer = byte,
                            !.currentAddress = IF a1 > \hFFFF THEN \h8000 ELSE a1,
                            !.currentLength = d.currentLength - 1,
                            !.bufferEmpty = FALSE]
         IN  IF f.currentLength = 0
             THEN IF f.loop
                  THEN [DMCrestartSample(f) EXCEPT !.dmcIRQ = f.irqEnabled \/ f.dmcIRQ]
                  ELSE IF f.irqEnabled THEN [f EXCEPT !.dmcIRQ = TRUE]
                  ELSE f
             ELSE f
    ELSE d
\* DMCChannel.fetchSample(); byte is what memory.read(currentAddress) returns
DMCfetchSample(d, byte) ==
    IF d.currentLength > 0
    THEN LET a1 == d.currentAddress + 1
             f == [d EXCEPT !.sampleBuffer = byte,
                            !.currentAddress = IF a1 > \hFFFF THEN \h8000 ELSE a1,
                            !.currentLength = d.currentLength - 1,
                            !.bufferEmpty = FALSE]
         IN  IF f.currentLength = 0
             THEN IF f.loop THEN DMCrestartSample(f)
                  ELSE IF f.irqEnabled THEN [f EXCEPT !.dmcIRQ = TRUE]
                  ELSE f
             ELSE f
    ELSE d

\* the output level moved without the range test
DMCoutputUnclamped(level, bit) ==
    IF bit # 0 THEN level + 2 ELSE level - 2
\* the output level after the bit shifted out of the shift register
DMCoutput(level, bit) ==
    IF bit # 0
    THEN (IF level <= 125 THEN level + 2 ELSE level)
    ELSE (IF level >= 2 THEN level - 2 ELSE level)

\* DMCChannel.step(); the sample addresses lie in 0x8000-0xFFFF, which
\* Memory.read routes to the cartridge
DMCstep(d, r) ==
    LET Output(g) ==
            IF g.bitsRemaining > 0
            THEN [g EXCEPT !.outputLevel =
                              DMCoutput(g.outputLevel, And(g.shiftRegister, 1)),
                           !.shiftRegister = Shr(g.shiftRegister, 1),
                           !.bitsRemaining = g.bitsRemaining - 1]
            ELSE g
        Refill(f) ==
            Output(IF d.bitsRemaining = 0 /\ ~f.bufferEmpty
                   THEN [f EXCEPT !.shiftRegister = f.sampleBuffer,
                                  !.bitsRemaining = 8, !.bufferEmpty = TRUE]
                   ELSE f)
    IN  IF ~d.enabled THEN d
        ELSE Refill(IF d.bitsRemaining = 0 /\ d.bufferEmpty
                    THEN DMCfetchSample(d, CartCpuRead(r, d.currentAddress))
                    ELSE d)

\* APU.stepFrameCounter()
APUstepFrameCounter(a) ==
    IF a.frameCounterMode = 0
    THEN LET s == (a.frameStep + 1) % 4
         IN  [a EXCEPT !.frameStep = s,
                       !.frameIRQ = IF s = 3 THEN TRUE ELSE a.frameIRQ]
    ELSE [a EXCEPT !.frameStep = (a.frameStep + 1) % 5]

\* APU.step(): one CPU cycle
APUstep(a, r) ==
    LET c == [a EXCEPT !.cycles = a.cycles + 1]
        f == IF c.cycles % 7457 = 0 THEN APUstepFrameCounter(c) ELSE c
    IN  [f EXCEPT !.dmc = DMCstep(f.dmc, r)]

\* APU.setChannelEnable(value)
APUsetChannelEnable(a, value) ==
    [a EXCEPT !.pulse1 = And(value, 1) # 0,
              !.pulse2 = And(value, 2) # 0,
              !.triangle = And(value, 4) # 0,
              !.noise = And(value, 8) # 0,
              !.dmc = DMCsetEnabled(a.dmc, And(value, 16))]

\* APU.write(addr, value)
APUwrite(a, addr, value) ==
    IF addr >= \h4010 /\ addr <= \h4013
    THEN [a EXCEPT !.dmc = DMCwrite(a.dmc, addr, value)]
    ELSE IF addr = \h4015 THEN APUsetChannelEnable(a, value)
    ELSE IF addr = \h4017
    THEN [a EXCEPT !.frameCounterMode = And(Shr(value, 7), 1),
                   !.frameIRQ = IF And(value, \h40) # 0 THEN FALSE ELSE a.frameIRQ]
    ELSE a

\* APU.read(addr): the returned value and the APU afterwards
APUread(a, addr) ==
    IF addr = \h4015
    THEN [value |-> Or((IF a.pulse1 THEN 1 ELSE 0),
                    Or((IF a.pulse2 THEN 2 ELSE 0),
                    Or((IF a.triangle THEN 4 ELSE 0),
                    Or((IF a.noise THEN 8 ELSE 0),
                       (IF a.dmc.enabled THEN 16 ELSE 0))))),
          a |-> [a EXCEPT !.frameIRQ = FALSE]]
    ELSE [value |-> 0, a |-> a]

\* APU.getIRQ()
APUgetIRQ(a) == a.frameIRQ \/ a.dmc.dmcIRQ

(***************************************************************************)
(* Memory, the CPU bus (part_000).  m is the machine behind the bus:       *)
(* [ram, ppu, ctl, apu, rom].  Memory names the APU's register methods     *)
(* readRegister / writeRegister; the APU class calls them read / write.    *)
(***************************************************************************)
\* the RAM cell behind a CPU address below 0x2000: addr % 0x0800
RamIndexWide(addr) == addr % \h1000
RamIndex(addr) == addr % \h0800

\* the register number handed to the PPU for 0x2000-0x3FFF: addr % 8
PpuRegUnreduced(addr) == addr
PpuRegIndex(addr) == addr % 8

\* Memory.read(addr): the returned value and the machine afterwards
MemRead(m, addr0) ==
    LET addr == addr0 % 65536
        FromPpu(res) == [value |-> res.value, m |-> [m EXCEPT !.ppu = res.p]]
        FromInput(res) == [value |-> res.value, m |-> [m EXCEPT !.ctl = res.cs]]
        FromApu(res) == [value |-> res.value, m |-> [m EXCEPT !.apu = res.a]]
    IN  IF addr < \h2000
        THEN [value |-> CellOf(m.ram, RamIndex(addr)), m |-> m]
        ELSE IF addr < \h4000
        THEN FromPpu(PPUreadRegister(m.ppu, m.rom, PpuRegIndex(addr)))
        ELSE IF addr = \h4016 \/ addr = \h4017
        THEN FromInput(InputRead(m.ctl, addr))
        ELSE IF addr >= \h4000 /\ addr < \h4020
        THEN FromApu(APUread(m.apu, addr))
        ELSE IF addr >= \h4020
        THEN [value |-> CartCpuRead(m.rom, addr), m |-> m]
        ELSE [value |-> 0, m |-> m]

\* Memory.write(addr, value): the machine afterwards
MemWrite(m, addr0, value0) ==
    LET addr == addr0 % 65536
        value == value0 % 256
    IN  IF addr < \h2000
        THEN [m EXCEPT !.ram = Store(m.ram, RamIndex(addr), value)]
        ELSE IF addr < \h4000
        THEN [m EXCEPT !.ppu = PPUwriteRegister(m.ppu, PpuRegIndex(addr), value)]
        ELSE IF addr >= \h4000 /\ addr < \h4020
        THEN IF addr = \h4016 \/ addr = \h4017
             THEN [m EXCEPT !.ctl = InputWrite(m.ctl, addr, value)]
             ELSE [m EXCEPT !.apu = APUwrite(m.apu, addr, value)]
        ELSE IF addr >= \h4020
        THEN [m EXCEPT !.rom = CartCpuWrite(m.rom, addr, value)]
        ELSE m

\* Memory.reset()
MemReset(m) == [m EXCEPT !.ram = <<>>]

\* The machine behind the bus, as one record, and its parts
Mach == [ram |-> ram, ppu |-> ppu, ctl |-> ctl, apu |-> apu, rom |-> rom]
SetMach(m) ==
    /\ ram' = m.ram
    /\ ppu' = m.ppu
    /\ ctl' = m.ctl
    /\ apu' = m.apu
    /\ rom' = m.rom

(***************************************************************************)
(* CPU (cpu.js).  st = [c |-> the CPU's registers, m |-> the machine behind*)
(* the bus]; an operator that returns a value returns [value, st].         *)
(***************************************************************************)
FlagC == 1
FlagZ == 2
FlagI == 4
FlagD == 8
FlagB == 16
FlagU == 32
FlagV == 64
FlagN == 128

\* CPU constructor
NewCPU == [A |-> 0, X |-> 0, Y |-> 0, SP |-> \hFD, PC |-> 0, status |-> \h24, cycles |-> 0]

\* CPU.read(addr)
CpuRead(st, addr) ==
    LET From(res) == [value |-> res.value, st |-> [st EXCEPT !.m = res.m]]
    IN  From(MemRead(st.m, addr))

\* CPU.write(addr, value)
CpuWrite(st, addr, value) == [st EXCEPT !.m = MemWrite(st.m, addr, value)]

\* (mutant of ReadWord: the first byte taken as the high byte)
ReadWordBigEndian(st, addr) ==
    LET Word(low, high) ==
            [value |-> Or(Shl(low.value, 8), high.value), st |-> high.st]
        High(low) == Word(low, CpuRead(low.st, addr + 1))
    IN  High(CpuRead(st, addr))

\* CPU.readWord(addr)
ReadWord(st, addr) ==
    LET Word(low, high) ==
            [value |-> Or(Shl(high.value, 8), low.value), st |-> high.st]
        High(low) == Word(low, CpuRead(low.st, addr + 1))
    IN  High(CpuRead(st, addr))

\* CPU.setFlag(flag, value)
SetFlag(st, flag, value) ==
    [st EXCEPT !.c.status = IF value THEN Or(st.c.status, flag)
                            ELSE AndNot(st.c.status, flag)]

\* CPU.getFlag(flag)
GetFlag(st, flag) == And(st.c.status, flag) # 0

\* the Z and N updates that follow a load or transfer of v
SetZN(st, v) == SetFlag(SetFlag(st, FlagZ, v = 0), FlagN, And(v, \h80) # 0)

\* CPU.getImmediate() and CPU.getZeroPageAddr(): read(PC++)
GetImmediate(st) == CpuRead([st EXCEPT !.c.PC = st.c.PC + 1], st.c.PC)

\* CPU.getAbsoluteAddr()
GetAbsoluteAddr(st) ==
    LET Advance(w) == [value |-> w.value, st |-> [w.st EXCEPT !.c.PC = w.st.c.PC + 2]]
    IN  Advance(ReadWord(st, st.c.PC))

\* CPU.push(value): write(0x0100 + SP--, value)
Push(st, value) ==
    [CpuWrite(st, \h0100 + st.c.SP, value) EXCEPT !.c.SP = st.c.SP - 1]

\* CPU.pull(): read(0x0100 + ++SP)
Pull(st) == CpuRead([st EXCEPT !.c.SP = st.c.SP + 1], \h0100 + st.c.SP + 1)

\* CPU.pushWord(value)
PushWord(st, value) == Push(Push(st, And(Shr(value, 8), \hFF)), And(value, \hFF))

\* (mutant of Adc: V taken from A ^ result alone)
AdcSignChange(st, value) ==
    LET a == st.c.A
        carry == IF GetFlag(st, FlagC) THEN 1 ELSE 0
        result == a + value + carry
        f1 == SetFlag(st, FlagC, result > \hFF)
        f2 == SetFlag(f1, FlagZ, And(result, \hFF) = 0)
        f3 == SetFlag(f2, FlagN, And(result, \h80) # 0)
        f4 == SetFlag(f3, FlagV, And(Xor(a, result), \h80) # 0)
    IN  [f4 EXCEPT !.c.A = And(result, \hFF)]

\* CPU.adc(value)
Adc(st, value) ==
    LET a == st.c.A
        carry == IF GetFlag(st, FlagC) THEN 1 ELSE 0
        result == a + value + carry
        f1 == SetFlag(st, FlagC, result > \hFF)
        f2 == SetFlag(f1, FlagZ, And(result, \hFF) = 0)
        f3 == SetFlag(f2, FlagN, And(result, \h80) # 0)
        f4 == SetFlag(f3, FlagV, And(AndNot(Xor(a, result), Xor(a, value)), \h80) # 0)
    IN  [f4 EXCEPT !.c.A = And(result, \hFF)]

\* CPU.sbc(value): adc(~value & 0xFF)
Sbc(st, value) == Adc(st, 255 - And(value, \hFF))

\* CPU.execute(opcode): the cycles returned and the state afterwards.  The
\* file holds two execute bodies (lines 67-92 and 117-167); an opcode handled
\* by either is handled here, and both treat 0xA9 alike.
Execute(st, opcode) ==
    LET LoadA(v) == SetZN([v.st EXCEPT !.c.A = v.value], v.value)
        StoreA(a) == CpuWrite(a.st, a.value, a.st.c.A)
        Jump(a) == [a.st EXCEPT !.c.PC = a.value]
        PushStatusB(s) == Push(s, Or(s.c.status, FlagB))
        Break(s) ==
            Jump(ReadWord(SetFlag(PushStatusB(PushWord(s, s.c.PC)), FlagI, TRUE),
                          \hFFFE))
        AddTo(v) == Adc(v.st, v.value)
        SubtractFrom(v) == Sbc(v.st, v.value)
        Inx(x) == SetZN([st EXCEPT !.c.X = x], x)
    IN  CASE opcode = \hA9 -> [cycles |-> 2, st |-> LoadA(GetImmediate(st))]
          [] opcode = \hAA ->
                [cycles |-> 2, st |-> SetZN([st EXCEPT !.c.X = st.c.A], st.c.A)]
          [] opcode = \hE8 -> [cycles |-> 2, st |-> Inx(And(st.c.X + 1, \hFF))]
          [] opcode = \h85 -> [cycles |-> 3, st |-> StoreA(GetImmediate(st))]
          [] opcode = \h8D -> [cycles |-> 4, st |-> StoreA(GetAbsoluteAddr(st))]
          [] opcode = \h4C -> [cycles |-> 3, st |-> Jump(GetAbsoluteAddr(st))]
          [] opcode = \h00 ->
                [cycles |-> 7, st |-> Break([st EXCEPT !.c.PC = st.c.PC + 1])]
          [] opcode = \h69 -> [cycles |-> 2, st |-> AddTo(GetImmediate(st))]
          [] opcode = \hE9 -> [cycles |-> 2, st |-> SubtractFrom(GetImmediate(st))]
          [] opcode = \h48 -> [cycles |-> 3, st |-> Push(st, st.c.A)]
          [] opcode = \h68 -> [cycles |-> 4, st |-> LoadA(Pull(st))]
          [] OTHER -> [cycles |-> 2, st |-> st]

\* CPU.step(): the cycles returned and the state afterwards
CPUstep(st) ==
    LET Run(op) == Execute(op.st, op.value)
    IN  Run(GetImmediate(st))

\* CPU.reset()
CPUreset(st) ==
    LET Jump(w) == [w.st EXCEPT !.c.PC = w.value]
    IN  Jump(ReadWord([st EXCEPT !.c.A = 0, !.c.X = 0, !.c.Y = 0, !.c.SP = \hFD,
                                 !.c.status = \h24],
                      \hFFFC))

\* CPU.nmi()
CPUnmi(st) ==
    LET Jump(w) == [w.st EXCEPT !.c.PC = w.value]
        PushStatus(s) == Push(s, s.c.status)
        Enter(s) == Jump(ReadWord(SetFlag(PushStatus(PushWord(s, s.c.PC)), FlagI, TRUE),
                                  \hFFFA))
    IN  Enter(st)

\* (mutant of CPUirq: taken whenever the level is asserted, I not consulted)
CPUirqUnmasked(st, level) ==
    LET Jump(w) == [w.st EXCEPT !.c.PC = w.value]
        PushStatus(s) == Push(s, s.c.status)
        Enter(s) == Jump(ReadWord(SetFlag(PushStatus(PushWord(s, s.c.PC)), FlagI, TRUE),
                                  \hFFFE))
    IN  IF level THEN Enter(st) ELSE st

\* CPU.irq(): declared without a parameter; the level the Emulator passes
\* is not read
CPUirq(st, level) ==
    LET Jump(w) == [w.st EXCEPT !.c.PC = w.value]
        PushStatus(s) == Push(s, s.c.status)
        Enter(s) == Jump(ReadWord(SetFlag(PushStatus(PushWord(s, s.c.PC)), FlagI, TRUE),
                                  \hFFFE))
    IN  IF ~GetFlag(st, FlagI) THEN Enter(st) ELSE st

(***************************************************************************)
(* Emulator (apu.js, class Emulator).  The hub drives pluggable components *)
(* through the interface listed in its header comment.  Two members of     *)
(* that interface have no implementation in the sources and follow the     *)
(* specification: the newFrame result of ppu.step() and ppu.nmiLine.       *)
(***************************************************************************)
\* Emulator.NTSC
CPU_HZ == 1789773
PPU_PER_CPU == 3
FPS == 60

\* Emulator constructor: interrupt line sample, frame counter, audio index,
\* running flag; then the locals of runFrame and whether it is executing
NewEmu ==
    [nmiPrev |-> FALSE, frameCounter |-> 0, audioWriteIdx |-> 0, running |-> FALSE,
     region |-> "NTSC", pc |-> "idle", cpuCyclesRun |-> 0, ppuCyclesRun |-> 0, framesCompleted |-> 0,
     audioAccumulator |-> <<>>]

\* ppu.step() -> { newFrame }: true for the dot that ends scanline 261
PpuNewFrame(before, after) == before.scanline = 261 /\ after.scanline = 0

\* ppu.nmiLine: VBlank flag (status bit 7) and NMI enable (PPUCTRL bit 7)
PpuNmiLine(p) == And(p.status, \h80) # 0 /\ And(p.ctrl, \h80) # 0

\* (mutant of PpuTicks: one PPU tick per CPU cycle)
PpuTicksOne(c) == c

\* the bound of the PPU loop of runFrame / stepInstruction after a CPU step
\* of c cycles: c * region.PPU_PER_CPU
PpuTicks(c) == c * PPU_PER_CPU

\* (mutant of ServiceNMI: cpu.nmi() on the level instead of the edge)
ServiceNMILevel(nmiPrev, line) ==
    [nmiPrev |-> line, fired |-> line]

\* Emulator._serviceNMI(): the new _nmiPrev and whether cpu.nmi() is called
ServiceNMI(nmiPrev, line) ==
    [nmiPrev |-> line, fired |-> line /\ ~nmiPrev]

\* the PPU loop of runFrame / stepInstruction: n dots, _serviceNMI after
\* each.  acc = [ppu, nmiPrev, nmiCalls, frames, ticks] and, for the record,
\* last (the level the previous sample found) and edges (the samples that
\* found the line high after a low sample); reports tells whether the
\* plugged PPU reports newFrame at all.
RECURSIVE PpuLoop(_, _, _, _)
PpuLoop(n, acc, r, reports) ==
    LET After(p2, newFrame, line, nmi) ==
            [ppu |-> p2,
             nmiPrev |-> nmi.nmiPrev,
             nmiCalls |-> acc.nmiCalls + (IF nmi.fired THEN 1 ELSE 0),
             frames |-> acc.frames + (IF newFrame THEN 1 ELSE 0),
             ticks |-> acc.ticks + 1,
             last |-> line,
             edges |-> acc.edges + (IF line /\ ~acc.last THEN 1 ELSE 0)]
        Sample(p2, line) ==
            After(p2, reports /\ PpuNewFrame(acc.ppu, p2), line,
                  ServiceNMI(acc.nmiPrev, line))
        Dot(p2) == Sample(p2, PpuNmiLine(p2))
    IN  IF n = 0 THEN acc
        ELSE CHOOSE res \in {PpuLoop(n - 1, next, r, reports) :
                                next \in {Dot(PPUstep(acc.ppu, r))}} : TRUE

\* the accumulator at the start of a PPU loop
LoopStart(p, nmiPrev, last) ==
    [ppu |-> p, nmiPrev |-> nmiPrev, nmiCalls |-> 0, frames |-> 0, ticks |-> 0,
     last |-> last, edges |-> 0]

\* (mutants of RunFrameContinues: the completed frame not consulted; the
\* cycle target not consulted)
RunFrameToTarget(e) == e.cpuCyclesRun * FPS < CPU_HZ
RunFrameUntilFrame(e) == e.framesCompleted = 0

\* the loop condition of runFrame
RunFrameContinues(e) == e.framesCompleted = 0 /\ e.cpuCyclesRun * FPS < CPU_HZ

\* Emulator._serviceIRQ(): the level handed to cpu.irq.  apu.irqLine is the
\* APU's IRQ level (APU.getIRQ); bus.mapper.irqLine is the cartridge's line,
\* an input; Memory has no irqLine member, so busIRQ is false.
IrqAsserted(a, mapperLine) ==
    LET apuIRQ == APUgetIRQ(a)
        mapperIRQ == mapperLine
        busIRQ == FALSE
    IN  apuIRQ \/ mapperIRQ \/ busIRQ

\* cpu.nmi() once for every rising edge the PPU loop found
RECURSIVE ApplyNmi(_, _)
ApplyNmi(k, st) ==
    IF k = 0 THEN st
    ELSE CHOOSE res \in {ApplyNmi(k - 1, next) : next \in {CPUnmi(st)}} : TRUE

\* Emulator.stepInstruction() on the state st = [c, m], with _nmiPrev and the
\* mapper's IRQ line: cpu.step(), 3 * c PPU dots with _serviceNMI after each,
\* apu.step(c) (APU.step takes no argument and advances one cycle),
\* _pumpAudio() (no audio sink attached), _serviceIRQ().
StepInstructionOn(st, nmiPrev, mapperLine, reports) ==
    LET ServiceIRQ(s1, loop, s3, level) ==
            [cycles |-> s1.cycles, st |-> CPUirq(s3, level), beforeIrq |-> s3,
             level |-> level, nmiPrev |-> loop.nmiPrev, nmiCalls |-> loop.nmiCalls]
        AfterApu(s1, loop, s3) ==
            ServiceIRQ(s1, loop, s3, IrqAsserted(s3.m.apu, mapperLine))
        AfterNmi(s1, loop, s2) ==
            AfterApu(s1, loop, [s2 EXCEPT !.m.apu = APUstep(s2.m.apu, s2.m.rom)])
        AfterPpu(s1, loop) ==
            AfterNmi(s1, loop,
                     ApplyNmi(loop.nmiCalls, [s1.st EXCEPT !.m.ppu = loop.ppu]))
        AfterCpu(s1) ==
            AfterPpu(s1, PpuLoop(PpuTicks(s1.cycles),
                                 LoopStart(s1.st.m.ppu, nmiPrev, nmiPrev),
                                 s1.st.m.rom, reports))
    IN  AfterCpu(CPUstep(st))

(***************************************************************************)
(* Constructed state shared by the specifications                          *)
(***************************************************************************)
EmptyRom == [prg |-> <<>>, chr |-> <<>>, sprite0 |-> FALSE]
NewPlug == [mapperIrq |-> FALSE, ppuReports |-> TRUE, audioSink |-> FALSE]

Constructed ==
    /\ ctl = [p \in Ports |-> NewController]
    /\ ram = <<>>
    /\ ppu = NewPPU
    /\ apu = NewAPU
    /\ cpu = NewCPU
    /\ rom = EmptyRom
    /\ emu = NewEmu
    /\ plug = NewPlug

(***************************************************************************)
(* SpecInput: the controller ports behind the bus.  Operations: a CPU      *)
(* write or read of 0x4016 / 0x4017 through Memory, and a key event.       *)
(* hist records, per port, the buttons held when the strobe fell, the      *)
(* number of reads since, the value the last read returned, and the value  *)
(* last written to 0x4016.                                                 *)
(***************************************************************************)
MaxReads == 9
MaxKeys == 1
StrobeValues == {0, 1, 2}
KeyCodes == DOMAIN KeyMap1 \cup DOMAIN KeyMap2 \cup {"KeyQ"}

InitInput ==
    /\ Constructed
    /\ hist = [latched |-> [p \in Ports |-> NewController.buttons],
               valid |-> [p \in Ports |-> FALSE],
               reads |-> [p \in Ports |-> 0],
               last |-> [p \in Ports |-> 0],
               keys |-> 0, wrote |-> 0]

\* Memory.write(0x4016 | 0x4017, v)
PortWrite(addr, v) ==
    LET m == MemWrite(Mach, addr, v)
        fell(p) == ctl[p].strobe # 0 /\ m.ctl[p].strobe = 0
        rose(p) == m.ctl[p].strobe # 0
    IN  /\ SetMach(m)
        /\ hist' = [hist EXCEPT
              !.valid = [p \in Ports |-> IF rose(p) THEN FALSE
                                         ELSE IF fell(p) THEN TRUE ELSE hist.valid[p]],
              !.latched = [p \in Ports |-> IF fell(p) THEN ctl[p].buttons
                                           ELSE hist.latched[p]],
              !.reads = [p \in Ports |-> IF rose(p) \/ fell(p) THEN 0
                                         ELSE hist.reads[p]],
              !.wrote = IF addr = \h4016 THEN v ELSE hist.wrote]
        /\ UNCHANGED <<cpu, emu, plug>>

\* Memory.read(0x4016 | 0x4017)
PortRead(addr) ==
    LET res == MemRead(Mach, addr)
        p == IF addr = \h4016 THEN 1 ELSE 2
    IN  /\ hist.reads[1] + hist.reads[2] < MaxReads
        /\ SetMach(res.m)
        /\ hist' = [hist EXCEPT !.reads[p] = hist.reads[p] + 1, !.last[p] = res.value]
        /\ UNCHANGED <<cpu, emu, plug>>

\* Input.handleKey(code, pressed)
KeyEvent(code, pressed) ==
    /\ hist.keys < MaxKeys
    /\ ctl' = InputHandleKey(ctl, code, pressed)
    /\ hist' = [hist EXCEPT !.keys = hist.keys + 1]
    /\ UNCHANGED <<ram, ppu, apu, cpu, rom, emu, plug>>

NextInput ==
    \/ \E addr \in {\h4016, \h4017}, v \in StrobeValues : PortWrite(addr, v)
    \/ \E addr \in {\h4016, \h4017} : PortRead(addr)
    \/ \E code \in KeyCodes, pressed \in BOOLEAN : KeyEvent(code, pressed)

SpecInput == InitInput /\ [][NextInput]_vars

\* C1: after the strobe is raised and dropped again, the n-th of the next 8
\* reads of a port returns 0x40 with bit 0 equal to the n-th button, in the
\* order A, B, Select, Start, Up, Down, Left, Right, of the state held when
\* the strobe was dropped.
C1_ShiftedOutInOrder ==
    \A p \in Ports :
        (hist.valid[p] /\ hist.reads[p] \in 1..8)
            => hist.last[p] = 64 + hist.latched[p][ButtonOrder[hist.reads[p]]]

\* C1 witness: port 1 latched Right alone and the eighth read returned its bit.
C1_Witness ==
    /\ hist.valid[1] /\ hist.reads[1] = 8 /\ hist.last[1] = 65
    /\ hist.latched[1]["Right"] = 1 /\ hist.latched[1]["A"] = 0

\* C2: with the strobe low, the 9th and every later read returns bit 0 = 1.
C2_NinthReadReturnsOne ==
    \A p \in Ports :
        (hist.valid[p] /\ hist.reads[p] >= 9) => And(hist.last[p], 1) = 1

\* C18: a write of v to 0x4016 leaves strobe = v & 1 on both ports; while
\* the strobe is 1 a port's shift register holds its current buttons (A in
\* bit 0 ... Right in bit 7) whatever key events and reads come between, and
\* every read made while the strobe is 1 returns 0x40 + the current A.
C18_StrobeHighTracksButtons ==
    [][\A p \in Ports :
          /\ ctl'[p].strobe = And(hist'.wrote, 1)
          /\ ctl'[p].strobe = 1 =>
                \A i \in 1..8 :
                    And(Shr(ctl'[p].shiftRegister, i - 1), 1)
                        = ctl'[p].buttons[ButtonOrder[i]]
          /\ ctl'[p].strobe = 1 => ctl'[p].shiftRegister < 256
          /\ (hist'.reads[p] = hist.reads[p] + 1 /\ ctl[p].strobe = 1) =>
                hist'.last[p] = 64 + ctl[p].buttons["A"]]_vars

\* C18 witness: with the strobe high, A of port 1 was pressed, the shift
\* register followed, and a read returned 0x41.
C18_Witness ==
    /\ ctl[1].strobe = 1 /\ hist.keys = 1
    /\ ctl[1].buttons["A"] = 1 /\ ctl[1].shiftRegister = 1
    /\ hist.reads[1] >= 1 /\ hist.last[1] = 65

\* C19: while the strobe is 0 a key event changes buttons only: the strobe
\* and the shift register of each port stay, so the reads that follow return
\* the bits latched when the strobe fell; a read of one port leaves the
\* other port's controller as it was.
C19_StrobeLowKeepsLatch ==
    [][/\ hist'.keys = hist.keys + 1 =>
             \A p \in Ports :
                 ctl[p].strobe = 0 =>
                     /\ ctl'[p].shiftRegister = ctl[p].shiftRegister
                     /\ ctl'[p].strobe = 0
       /\ \A p \in Ports :
             hist'.reads[p] = hist.reads[p] + 1 => ctl'[3 - p] = ctl[3 - p]
       /\ \A p \in Ports :
             (hist'.keys = 1 /\ hist'.valid[p] /\ hist'.reads[p] \in 1..8) =>
                 And(hist'.last[p], 1)
                     = hist'.latched[p][ButtonOrder[hist'.reads[p]]]]_vars

\* C19 witness: A of port 1 is held, pressed after the strobe fell with A
\* released, and the first read since returned the latched 0.
C19_Witness ==
    /\ hist.keys = 1 /\ ctl[1].strobe = 0 /\ hist.valid[1]
    /\ ctl[1].buttons["A"] = 1 /\ hist.latched[1]["A"] = 0
    /\ hist.reads[1] = 1 /\ hist.last[1] = 64

(***************************************************************************)
(* SpecBus: CPU reads and writes through Memory at addresses of every      *)
(* region of the map.  hist records the last access.                       *)
(***************************************************************************)
BusAddrs ==
    {\h0001, \h0801, \h1801, \h1FFF,
     \h2000, \h2002, \h200A, \h3FFF, \h4016, \h8000}
BusValues == {0, \h80, \hFF}

InitBus ==
    /\ Constructed
    /\ hist = [op |-> "none", addr |-> 0, value |-> 0]

\* Memory.write(addr, value)
BusWrite(addr, v) ==
    /\ SetMach(MemWrite(Mach, addr, v))
    /\ hist' = [op |-> "write", addr |-> addr, value |-> v]
    /\ UNCHANGED <<cpu, emu, plug>>

\* Memory.read(addr)
BusRead(addr) ==
    LET res == MemRead(Mach, addr)
    IN  /\ SetMach(res.m)
        /\ hist' = [op |-> "read", addr |-> addr, value |-> res.value]
        /\ UNCHANGED <<cpu, emu, plug>>

NextBus ==
    \/ \E addr \in BusAddrs, v \in BusValues : BusWrite(addr, v)
    \/ \E addr \in BusAddrs : BusRead(addr)

SpecBus == InitBus /\ [][NextBus]_vars

\* what a CPU read of addr would return in the current state
ReadValue(addr) == MemRead(Mach, addr).value

\* C3 as stated: for all addr in [0, 0x2000), cpu_read(addr) equals
\* cpu_read(addr + 0x0800) after any sequence of writes.
C3_MirrorThrough1FFF ==
    \A addr \in 0..\h1FFF : ReadValue(addr) = ReadValue(addr + \h0800)

\* C3 amended: for all addr in [0, 0x1800), cpu_read(addr) equals
\* cpu_read(addr + 0x0800) after any sequence of writes; both addresses are
\* then RAM addresses.
C3_MirrorWithinRam ==
    \A addr \in 0..\h17FF : ReadValue(addr) = ReadValue(addr + \h0800)

\* C3 witness: 0xFF written through the mirror 0x0801 is what 0x0001 and
\* 0x1801 read.
C3_Witness ==
    /\ hist.op = "write" /\ hist.addr = \h0801 /\ hist.value = \hFF
    /\ ReadValue(\h0001) = \hFF /\ ReadValue(\h1801) = \hFF

\* C4: for all addr in [0x2000, 0x4000), a read of addr returns what a read
\* of 0x2000 + (addr & 7) returns and leaves the same state, and a write of
\* any value to addr leaves the same state as that write to 0x2000 + (addr & 7).
C4_PpuRegisterMirror ==
    \A addr \in \h2000..\h3FFF :
        LET base == \h2000 + And(addr, 7)
        IN  /\ MemRead(Mach, addr) = MemRead(Mach, base)
            /\ \A v \in BusValues : MemWrite(Mach, addr, v) = MemWrite(Mach, base, v)

\* C4 witness: a read of the mirror 0x200A has been served after a write to
\* the mirror 0x3FFF.
C4_Witness ==
    /\ hist.op = "read" /\ hist.addr = \h200A
    /\ ReadValue(\h1FFF) = \h80

(***************************************************************************)
(* SpecCpu: the CPU on the bus, driven by Emulator.stepInstruction, with   *)
(* CPU.reset and CPU.nmi called at any instruction boundary.  The          *)
(* cartridge holds one of the PRG images below.  hist records the last     *)
(* operation, the state [c, m] just before _serviceIRQ sampled the line,   *)
(* the level it passed, how many operations were performed, and cost: the   *)
(* cycles the operation handed back to be accounted (stepInstruction        *)
(* returns those of cpu.step(); reset() and nmi() return nothing).          *)
(***************************************************************************)
MaxSteps == 10
MaxNmis == 1

\* PRG image: reset at 0x8000, NMI at 0x9000, IRQ/BRK at 0xA000
\*   8000: LDA #$00; LDA #$80; STA $10; PHA; ADC #$7F; SBC #$01; PLA; TAX; INX;
\*         STA $0200; BRK       9000: (0xEA, not handled); JMP $8000
\*   A000: JMP $8003
PrgProgram ==
    (\h8000 :> \hA9) @@ (\h8001 :> \h00) @@ (\h8002 :> \hA9) @@ (\h8003 :> \h80) @@
    (\h8004 :> \h85) @@ (\h8005 :> \h10) @@ (\h8006 :> \h48) @@ (\h8007 :> \h69) @@
    (\h8008 :> \h7F) @@ (\h8009 :> \hE9) @@ (\h800A :> \h01) @@ (\h800B :> \h68) @@
    (\h800C :> \hAA) @@ (\h800D :> \hE8) @@ (\h800E :> \h8D) @@
    (\h8010 :> \h02) @@
    (\h9000 :> \hEA) @@ (\h9001 :> \h4C) @@ (\h9003 :> \h80) @@
    (\hA000 :> \h4C) @@ (\hA001 :> \h03) @@ (\hA002 :> \h80) @@
    (\hFFFB :> \h90) @@ (\hFFFD :> \h80) @@ (\hFFFF :> \hA0)

\* PRG image of zeros with the reset vector 0x1234
PrgVectorOnly == (\hFFFC :> \h34) @@ (\hFFFD :> \h12)

\* PRG image for OAM DMA: reset at 0x8000, the other vectors 0
\*   8000: LDA #$80; STA $0200; LDA #$02; STA $4014
PrgDma ==
    (\h8000 :> \hA9) @@ (\h8001 :> \h80) @@ (\h8002 :> \h8D) @@ (\h8004 :> \h02) @@
    (\h8005 :> \hA9) @@ (\h8006 :> \h02) @@ (\h8007 :> \h8D) @@ (\h8008 :> \h14) @@
    (\h8009 :> \h40) @@ (\hFFFD :> \h80)

RomImages ==
    {[prg |-> PrgProgram, chr |-> <<>>, sprite0 |-> FALSE],
     [prg |-> PrgVectorOnly, chr |-> <<>>, sprite0 |-> FALSE],
     [prg |-> PrgDma, chr |-> <<>>, sprite0 |-> FALSE]}

InitCpu ==
    /\ ctl = [p \in Ports |-> NewController]
    /\ ram = <<>>
    /\ ppu = NewPPU
    /\ apu = NewAPU
    /\ cpu = NewCPU
    /\ rom \in RomImages
    /\ emu = NewEmu
    /\ plug = NewPlug
    /\ hist = [op |-> "none", beforeIrq |-> [c |-> NewCPU, ram |-> <<>>],
               level |-> FALSE, steps |-> 0, nmis |-> 0, cost |-> 0]

SetCpuState(st) == cpu' = st.c /\ SetMach(st.m)

\* CPU.reset()
CpuResetOp ==
    /\ SetCpuState(CPUreset([c |-> cpu, m |-> Mach]))
    /\ hist' = [hist EXCEPT !.op = "reset", !.cost = 0]
    /\ UNCHANGED <<emu, plug>>

\* CPU.nmi()
CpuNmiOp ==
    /\ hist.nmis < MaxNmis
    /\ SetCpuState(CPUnmi([c |-> cpu, m |-> Mach]))
    /\ hist' = [hist EXCEPT !.op = "nmi", !.nmis = hist.nmis + 1, !.cost = 0]
    /\ UNCHANGED <<emu, plug>>

\* Emulator.stepInstruction(), the mapper's IRQ line being mapperLine
StepInstruction(mapperLine) ==
    /\ hist.steps < MaxSteps
    /\ \E res \in {StepInstructionOn([c |-> cpu, m |-> Mach], emu.nmiPrev,
                                     mapperLine, plug.ppuReports)} :
          /\ SetCpuState(res.st)
          /\ emu' = [emu EXCEPT !.nmiPrev = res.nmiPrev]
          /\ plug' = [plug EXCEPT !.mapperIrq = mapperLine]
          /\ hist' = [hist EXCEPT !.op = "step",
                                  !.beforeIrq = [c |-> res.beforeIrq.c,
                                                 ram |-> res.beforeIrq.m.ram],
                                  !.level = res.level,
                                  !.steps = hist.steps + 1,
                                  !.cost = res.cycles]

NextCpu ==
    \/ CpuResetOp
    \/ CpuNmiOp
    \/ \E mapperLine \in BOOLEAN : StepInstruction(mapperLine)

SpecCpu == InitCpu /\ [][NextCpu]_vars

\* C5: after cpu.reset(), whatever the CPU did before and whatever memory
\* holds, SP = 0xFD, I = 1 and PC is the little-endian word at 0xFFFC/0xFFFD.
C5_ResetState ==
    hist.op = "reset" =>
        /\ cpu.SP = \hFD
        /\ And(cpu.status, FlagI) # 0
        /\ cpu.PC = ReadValue(\hFFFC) + 256 * ReadValue(\hFFFD)

\* C5 witness: a reset after instructions that pushed onto the stack, with
\* the vector bytes 0x34, 0x12 giving PC = 0x1234.
C5_Witness ==
    /\ hist.op = "reset" /\ hist.steps >= 2 /\ ram # <<>>
    /\ cpu.PC = \h1234

C11_InterruptSequence ==
    [][LET Vector(a) == ReadValue(a) + 256 * ReadValue(a + 1)
           Entered(before, pc, b, vector) ==
               /\ CellOf(ram', \h0100 + before.SP) = Shr(pc, 8) % 256
               /\ CellOf(ram', \h0100 + before.SP - 1) = pc % 256
               /\ And(CellOf(ram', \h0100 + before.SP - 2), FlagU) # 0
               /\ (And(CellOf(ram', \h0100 + before.SP - 2), FlagB) # 0) = b
               /\ cpu'.SP = before.SP - 3
               /\ And(cpu'.status, FlagI) # 0
               /\ cpu'.PC = vector
       IN  /\ hist'.op = "nmi" =>
                 /\ Entered(cpu, cpu.PC, FALSE, Vector(\hFFFA))
                 /\ hist'.cost = 7
           /\ (hist'.op = "step" /\ ReadValue(cpu.PC) = \h00) =>
                 /\ Entered(cpu, cpu.PC + 2, TRUE, Vector(\hFFFE))
                 /\ hist'.cost = 7
           /\ (hist'.op = "step" /\ cpu' # hist'.beforeIrq.c) =>
                 /\ Entered(hist'.beforeIrq.c, hist'.beforeIrq.c.PC, FALSE,
                            Vector(\hFFFE))
                 /\ hist'.cost >= 7]_vars

\* C12 as stated: STA $4014 with A = P copies the 256 bytes of CPU page P
\* (RAM for P < 0x20) into OAM from OAMADDR on, and 4 + 513 cycles are
\* accounted for the instruction.
C12_OamDmaCopiesPage ==
    [][(/\ hist'.op = "step"
        /\ ReadValue(cpu.PC) = \h8D
        /\ ReadValue(cpu.PC + 1) = \h14 /\ ReadValue(cpu.PC + 2) = \h40
        /\ cpu.A < \h20) =>
           /\ hist'.cost = 4 + 513
           /\ \A i \in 0..255 :
                 CellOf(ppu'.oam, (ppu.oamAddr + i) % 256)
                     = CellOf(ram, RamIndex(256 * cpu.A + i))]_vars

\* C21: cpu.reset() leaves A, X and Y as they were, whatever the CPU state
\* before.
C21_ResetKeepsAXY ==
    [][hist'.op = "reset" =>
          /\ cpu'.A = cpu.A
          /\ cpu'.X = cpu.X
          /\ cpu'.Y = cpu.Y]_vars

(***************************************************************************)
(* SpecFrame: Emulator.runFrame as the host calls it.  The CPU and APU are *)
(* the hub's plugged components: of the CPU the loop uses the cycle count  *)
(* that cpu.step() returns, drawn from Costs, and calls cpu.nmi() and      *)
(* cpu.irq(); the APU's own state is left out (its step count differs on   *)
(* every path, and the level it raises goes to a CPU whose I flag is set). *)
(* The PPU is stepped dot by dot.  A behaviour starts from one of          *)
(* FrameStarts: the emulator after reset and the host's PPUCTRL / PPUMASK  *)
(* writes, or between two runFrame calls, when the PPU stands dot dots     *)
(* into scanline 0 (a call returns within the 3 * 7 dots of the step in    *)
(* which the frame ended).  hist keeps the start, the last operation, the  *)
(* cpu.nmi() calls of the running call and of the behaviour, the rising    *)
(* edges among the samples of the behaviour, the level of the last sample, *)
(* the CPU cycles of the behaviour, the calls that returned and the last   *)
(* FrameStats.                                                             *)
(***************************************************************************)
MaxCycles == 29900

\* the cycle counts CPU.execute returns
Costs == {2, 3, 4, 7}

FrameStarts ==
    {[dot |-> 0, scanline |-> 0, frames |-> 0, ctrl |-> \h80, mask |-> \h18,
      status |-> 0, nmiPrev |-> FALSE, reports |-> TRUE],
     [dot |-> 20, scanline |-> 0, frames |-> 2, ctrl |-> \h00, mask |-> \h00,
      status |-> 0, nmiPrev |-> FALSE, reports |-> TRUE],
     [dot |-> 0, scanline |-> 0, frames |-> 0, ctrl |-> \h80, mask |-> \h00,
      status |-> 0, nmiPrev |-> FALSE, reports |-> FALSE]}

NoStats == [cpuCyclesRun |-> 0, ppuCyclesRun |-> 0, framesCompleted |-> 0, frameIndex |-> 0]

\* the cartridge with PrgProgram
ProgramRom == [prg |-> PrgProgram, chr |-> <<>>, sprite0 |-> FALSE]

\* the emulator standing at the start s, the CPU as reset() left it
StartsAt(s) ==
    /\ ctl = [p \in Ports |-> NewController]
    /\ ram = <<>>
    /\ apu = NewAPU
    /\ rom = ProgramRom
    /\ ppu = [NewPPU EXCEPT !.cycle = s.dot, !.scanline = s.scanline,
                            !.ctrl = s.ctrl, !.mask = s.mask, !.status = s.status]
    /\ cpu = CPUreset([c |-> NewCPU,
                       m |-> [ram |-> <<>>, ppu |-> NewPPU,
                              ctl |-> [p \in Ports |-> NewController],
                              apu |-> NewAPU, rom |-> ProgramRom]]).c
    /\ emu = [NewEmu EXCEPT !.frameCounter = s.frames, !.nmiPrev = s.nmiPrev]
    /\ plug = [NewPlug EXCEPT !.ppuReports = s.reports]
    /\ hist = [start |-> s, op |-> "none", nmiCalls |-> 0, nmiTotal |-> 0,
               edges |-> 0, lastSample |-> s.nmiPrev, cycles |-> 0,
               calls |-> 0, stats |-> NoStats]

InitFrame == \E s \in FrameStarts : StartsAt(s)

\* runFrame(): entry, the locals set to 0
RunFrameBegin ==
    /\ emu.pc = "idle"
    /\ emu' = [emu EXCEPT !.pc = "loop", !.cpuCyclesRun = 0, !.ppuCyclesRun = 0,
                          !.framesCompleted = 0]
    /\ hist' = [hist EXCEPT !.op = "begin", !.nmiCalls = 0]
    /\ UNCHANGED <<ctl, ram, ppu, apu, cpu, rom, plug>>

\* what follows cpu.step() in an iteration of runFrame and in
\* stepInstruction: the PPU loop, the cpu.nmi() calls it asked for, the APU
\* a that apu.step(c) leaves, and _serviceIRQ
AfterCpuStep(loop, a) ==
    /\ SetCpuState(CPUirq(ApplyNmi(loop.nmiCalls,
                                   [c |-> cpu,
                                    m |-> [Mach EXCEPT !.ppu = loop.ppu, !.apu = a]]),
                          IrqAsserted(a, plug.mapperIrq)))
    /\ UNCHANGED plug

\* runFrame(): one iteration of the while loop, cpu.step() returning c
RunFrameStep(c) ==
    /\ emu.pc = "loop"
    /\ RunFrameContinues(emu)
    /\ \E loop \in {PpuLoop(PpuTicks(c),
                            LoopStart(ppu, emu.nmiPrev, hist.lastSample),
                            rom, plug.ppuReports)} :
          /\ AfterCpuStep(loop, apu)
          /\ emu' = [emu EXCEPT !.cpuCyclesRun = emu.cpuCyclesRun + c,
                                !.ppuCyclesRun = emu.ppuCyclesRun + loop.ticks,
                                !.framesCompleted = emu.framesCompleted + loop.frames,
                                !.nmiPrev = loop.nmiPrev]
          /\ hist' = [hist EXCEPT !.op = "step",
                                  !.nmiCalls = hist.nmiCalls + loop.nmiCalls,
                                  !.nmiTotal = hist.nmiTotal + loop.nmiCalls,
                                  !.edges = hist.edges + loop.edges,
                                  !.lastSample = loop.last,
                                  !.cycles = hist.cycles + c]

\* runFrame(): the loop condition fails; _frameCounter advances and the
\* stats are returned
RunFrameReturn ==
    /\ emu.pc = "loop"
    /\ ~RunFrameContinues(emu)
    /\ emu' = [emu EXCEPT !.pc = "idle",
                          !.frameCounter = emu.frameCounter + emu.framesCompleted]
    /\ hist' = [hist EXCEPT !.op = "return",
                            !.calls = hist.calls + 1,
                            !.stats = [cpuCyclesRun |-> emu.cpuCyclesRun,
                                       ppuCyclesRun |-> emu.ppuCyclesRun,
                                       framesCompleted |-> emu.framesCompleted,
                                       frameIndex |-> emu.frameCounter
                                                      + emu.framesCompleted]]
    /\ UNCHANGED <<ctl, ram, ppu, apu, cpu, rom, plug>>

NextFrame ==
    \/ RunFrameBegin
    \/ \E c \in Costs : hist.cycles < MaxCycles /\ RunFrameStep(c)
    \/ RunFrameReturn

SpecFrame == InitFrame /\ [][NextFrame]_vars

C37_SafetyCapTwoFrames ==
    (hist.op = "return" /\ hist.stats.framesCompleted = 0) =>
        /\ hist.stats.cpuCyclesRun * FPS >= 2 * CPU_HZ
        /\ hist.stats.cpuCyclesRun * FPS < 2 * CPU_HZ + 7 * FPS

MaxNmiCycles == 16

NmiStarts ==
    {[dot |-> 330, scanline |-> 240, frames |-> 0, ctrl |-> \h80, mask |-> \h00,
      status |-> \h00, nmiPrev |-> FALSE, reports |-> TRUE],
     [dot |-> 330, scanline |-> 261, frames |-> 0, ctrl |-> \h80, mask |-> \h00,
      status |-> \h80, nmiPrev |-> TRUE, reports |-> TRUE]}

CtrlValues == {\h00, \h80}

InitNmi == \E s \in NmiStarts : StartsAt(s)

\* ppu.reset(), apu.reset(sampleRate), input.reset(): the constructed state
PPUreset(p) == NewPPU
APUreset(a) == NewAPU
InputReset(cs) == [p \in Ports |-> NewController]

\* the components after bus.reset(), apu.reset(), ppu.reset(), input.reset()
ComponentsReset(m) ==
    [MemReset(m) EXCEPT !.apu = APUreset(m.apu), !.ppu = PPUreset(m.ppu),
                        !.ctl = InputReset(m.ctl)]

\* Emulator.stepInstruction(), cpu.step() returning c
StepInstr(c) ==
    /\ emu.pc = "idle"
    /\ \E loop \in {PpuLoop(PpuTicks(c),
                            LoopStart(ppu, emu.nmiPrev, hist.lastSample),
                            rom, plug.ppuReports)} :
          /\ AfterCpuStep(loop, APUstep(apu, rom))
          /\ emu' = [emu EXCEPT !.nmiPrev = loop.nmiPrev]
          /\ hist' = [hist EXCEPT !.op = "instr",
                                  !.nmiTotal = hist.nmiTotal + loop.nmiCalls,
                                  !.edges = hist.edges + loop.edges,
                                  !.lastSample = loop.last,
                                  !.cycles = hist.cycles + c]

\* the host writes PPUCTRL between two calls
HostWriteCtrl(v) ==
    /\ emu.pc = "idle"
    /\ ppu' = PPUwriteRegister(ppu, \h2000, v)
    /\ hist' = [hist EXCEPT !.op = "ctrl"]
    /\ UNCHANGED <<ctl, ram, apu, cpu, rom, emu, plug>>

\* the host reads PPUSTATUS between two calls
HostReadStatus ==
    /\ emu.pc = "idle"
    /\ ppu' = PPUreadRegister(ppu, rom, \h2002).p
    /\ hist' = [hist EXCEPT !.op = "status"]
    /\ UNCHANGED <<ctl, ram, apu, cpu, rom, emu, plug>>

\* Emulator.reset()
EmuReset ==
    /\ emu.pc = "idle"
    /\ emu' = [emu EXCEPT !.frameCounter = 0, !.audioWriteIdx = 0, !.nmiPrev = FALSE]
    /\ SetCpuState(CPUreset([c |-> cpu, m |-> ComponentsReset(Mach)]))
    /\ hist' = [hist EXCEPT !.op = "reset", !.lastSample = FALSE]
    /\ UNCHANGED plug

NextNmi ==
    \/ \E c \in Costs : hist.cycles < MaxNmiCycles /\ StepInstr(c)
    \/ \E v \in CtrlValues : HostWriteCtrl(v)
    \/ HostReadStatus
    \/ EmuReset
    \/ RunFrameBegin
    \/ \E c \in Costs : hist.cycles < MaxNmiCycles /\ RunFrameStep(c)
    \/ RunFrameReturn

SpecNmi == InitNmi /\ [][NextNmi]_vars

MaxDots == 90000

PpuStarts ==
    {[scanline |-> 0, dot |-> 0, rises |-> 0],
     [scanline |-> 240, dot |-> 330, rises |-> 0],
     [scanline |-> 260, dot |-> 330, rises |-> 1]}

VBlankFlag(p) == And(p.status, \h80) # 0

\* a cartridge whose CHR data and sprite 0 make renderSprites find a hit
Sprite0Rom == [prg |-> <<>>, chr |-> <<>>, sprite0 |-> TRUE]

InitPpu ==
    /\ ctl = [p \in Ports |-> NewController]
    /\ ram = <<>>
    /\ apu = NewAPU
    /\ cpu = NewCPU
    /\ rom \in {EmptyRom, Sprite0Rom}
    /\ emu = NewEmu
    /\ plug = NewPlug
    /\ \E s \in PpuStarts :
          /\ ppu = IF s.rises = 1 /\ rom.sprite0
                   THEN [NewPPU EXCEPT !.scanline = s.scanline, !.cycle = s.dot,
                                       !.status = \h40, !.sprite0Hit = TRUE]
                   ELSE [NewPPU EXCEPT !.scanline = s.scanline, !.cycle = s.dot]
          /\ hist = [dots |-> 0, rises |-> s.rises]

\* PPU.step()
PpuDot ==
    /\ hist.dots < MaxDots
    /\ ppu' = PPUstep(ppu, rom)
    /\ hist' = [dots |-> hist.dots + 1,
                rises |-> (IF ppu'.scanline < ppu.scanline THEN 0 ELSE hist.rises)
                          + (IF VBlankFlag(ppu') /\ ~VBlankFlag(ppu) THEN 1 ELSE 0)]
    /\ UNCHANGED <<ctl, ram, apu, cpu, rom, emu, plug>>

\* PPU.readRegister(0x2002)
StatusRead ==
    /\ ppu' = PPUreadRegister(ppu, rom, \h2002).p
    /\ UNCHANGED <<ctl, ram, apu, cpu, rom, emu, plug, hist>>

NextPpu ==
    \/ PpuDot
    \/ StatusRead

SpecPpu == InitPpu /\ [][NextPpu]_vars

\* C13 as stated: in every frame status bit 7 rises exactly once, at dot 1
\* of scanline 241, and is clear from dot 1 of the pre-render scanline 261
\* (it may be cleared earlier by a read of 0x2002).
C13_VBlankAtDot1 ==
    [][/\ (VBlankFlag(ppu') /\ ~VBlankFlag(ppu)) =>
              (ppu'.scanline = 241 /\ ppu'.cycle = 1)
       /\ (ppu'.scanline = 261 /\ ppu'.cycle >= 1) => ~VBlankFlag(ppu')
       /\ (ppu.scanline = 261 /\ ppu'.scanline = 0) => hist.rises = 1]_vars

\* C28: after any number of PPU ticks the dot counter is in [0, 340] and
\* the scanline counter in [-1, 260]; a tick moves to another scanline
\* exactly when it leaves dot 340, so a scanline lasts 341 dots, and the
\* scanline counter returns to its first value after 262 scanlines.
C28_DotAndScanlineRanges ==
    [][/\ ppu'.cycle \in 0..340
       /\ ppu'.scanline \in -1..260
       /\ hist'.dots = hist.dots + 1 =>
             /\ (ppu'.scanline # ppu.scanline) = (ppu.cycle = 340)
             /\ ppu.cycle < 340 => ppu'.cycle = ppu.cycle + 1
             /\ ppu.cycle = 340 => ppu'.cycle = 0
             /\ ppu'.scanline < ppu.scanline =>
                   ppu.scanline - ppu'.scanline = 261]_vars

\* C29: status bits 6 (sprite-0 hit) and 5 (sprite overflow) are cleared
\* together with bit 7 before the frame's visible scanlines: the tick that
\* enters the first visible scanline finds bits 7, 6 and 5 of the status
\* clear, whatever the frame before has set.
C29_SpriteFlagsClearedPreRender ==
    [][(ppu.scanline # 0 /\ ppu'.scanline = 0) => And(ppu'.status, \hE0) = 0]_vars

(***************************************************************************)
(* SpecVram: the PPU's address and data ports.  Operations: writes of      *)
(* PPUADDR (0x2006) and PPUDATA (0x2007) and reads of PPUDATA, made on the *)
(* PPU's register methods.  The cartridge's CHR holds 0x55 at 0x1F00.      *)
(* hist records the last operation, the address and value of the last      *)
(* PPUDATA read and of the last PPUDATA write, and the PPUDATA accesses.   *)
(***************************************************************************)
MaxAccesses == 2

AddrBytes == {\h3F, \h00, \h10, \h20, \hFF}
DataBytes == {\h2A, \h15}

ChrRom == [prg |-> <<>>, chr |-> (\h1F00 :> \h55), sprite0 |-> FALSE]

NoAccess == [addr |-> 0, value |-> 0]

InitVram ==
    /\ ctl = [p \in Ports |-> NewController]
    /\ ram = <<>>
    /\ ppu = NewPPU
    /\ apu = NewAPU
    /\ cpu = NewCPU
    /\ rom = ChrRom
    /\ emu = NewEmu
    /\ plug = NewPlug
    /\ hist = [op |-> "none", read |-> NoAccess, written |-> NoAccess, accesses |-> 0]

\* PPU.writeRegister(0x2006, v)
AddrWrite(v) ==
    /\ ppu' = PPUwriteRegister(ppu, \h2006, v)
    /\ hist' = [hist EXCEPT !.op = "addr"]
    /\ UNCHANGED <<ctl, ram, apu, cpu, rom, emu, plug>>

\* PPU.writeRegister(0x2007, v)
DataWrite(v) ==
    /\ hist.accesses < MaxAccesses
    /\ ppu' = PPUwriteRegister(ppu, \h2007, v)
    /\ hist' = [hist EXCEPT !.op = "write",
                            !.written = [addr |-> And(ppu.vramAddr, \h3FFF), value |-> v],
                            !.accesses = hist.accesses + 1]
    /\ UNCHANGED <<ctl, ram, apu, cpu, rom, emu, plug>>

\* PPU.readRegister(0x2007)
DataRead ==
    /\ hist.accesses < MaxAccesses
    /\ \E res \in {PPUreadRegister(ppu, rom, \h2007)} :
          /\ ppu' = res.p
          /\ hist' = [hist EXCEPT !.op = "read",
                                  !.read = [addr |-> And(ppu.vramAddr, \h3FFF),
                                            value |-> res.value],
                                  !.accesses = hist.accesses + 1]
    /\ UNCHANGED <<ctl, ram, apu, cpu, rom, emu, plug>>

NextVram ==
    \/ \E v \in AddrBytes : AddrWrite(v)
    \/ \E v \in DataBytes : DataWrite(v)
    \/ DataRead

SpecVram == InitVram /\ [][NextVram]_vars

\* C14 as stated: palette entries 0x3F10/14/18/1C alias 0x3F00/04/08/0C: a
\* PPUDATA read of either address of a pair returns the value the last
\* PPUDATA write stored through either address of that pair.
C14_PaletteMirror ==
    (/\ hist.op = "read"
     /\ hist.written.addr \in {\h3F00, \h3F04, \h3F08, \h3F0C,
                               \h3F10, \h3F14, \h3F18, \h3F1C}
     /\ hist.read.addr % 16 = hist.written.addr % 16
     /\ hist.read.addr \in {\h3F00 + (hist.written.addr % 16),
                            \h3F10 + (hist.written.addr % 16)}) =>
        hist.read.value = hist.written.value

\* C26: after any sequence of register reads and writes the latches keep
\* their widths: v and t are in [0, 0x7FFF], fine X in [0, 7], w in {0, 1}.
C26_LatchWidths ==
    /\ ppu.vramAddr \in 0..\h7FFF
    /\ ppu.tempAddr \in 0..\h7FFF
    /\ ppu.fineX \in 0..7
    /\ ppu.writeToggle \in {0, 1}

\* C27: a write of PPUDATA stores the byte at VRAM[v] and adds 1 (32 with
\* CTRL bit 2) to v; when v was a nametable address, pointing v back at it
\* (a PPUSTATUS read, two PPUADDR writes) and reading PPUDATA twice returns
\* the byte with the second read, the first returning the read buffer.
C27_DataPortReadAhead ==
    [][hist'.op = "write" =>
          LET a == hist'.written.addr
              Pointed(p) ==
                  PPUwriteRegister(PPUwriteRegister(p, \h2006, Shr(a, 8)),
                                   \h2006, a % 256)
              Second(first) == PPUreadRegister(first.p, rom, \h2007)
              SecondRead(p) == Second(PPUreadRegister(Pointed(p), rom, \h2007))
          IN  /\ CellOf(ppu'.vram, a) = hist'.written.value
              /\ ppu'.vramAddr = ppu.vramAddr + VramInc(ppu)
              /\ a \in \h2000..\h3EFF =>
                    SecondRead(PPUreadRegister(ppu', rom, \h2002).p).value
                        = hist'.written.value]_vars

(***************************************************************************)
(* SpecState: save states.  Operations: saveState, loadState of the saved  *)
(* state (as saved, or as a state of another version or region would       *)
(* arrive, with any of the components' setState calls failing),            *)
(* loadState(saveState()), and between them stepInstruction and the host's *)
(* writes of PPUCTRL.  getState() / setState() of a                        *)
(* component copy and assign its state.  A behaviour starts in VBlank with *)
(* NMI disabled, the scheduler running, in frame 3.  hist is that of       *)
(* SpecNmi with the saved state, the saves made, the version, region and   *)
(* failing call of the last loadState and whether the last operation       *)
(* threw.                                                                  *)
(***************************************************************************)
MaxStateCycles == 3
MaxSaves == 1

Components == <<"bus", "cpu", "ppu", "apu", "input">>

\* how a state arrives at loadState: its version and region, and the number
\* of setState calls that succeed (5: all)
LoadArgs ==
    {[v |-> 1, region |-> "NTSC", failAt |-> 5],
     [v |-> 2, region |-> "PAL", failAt |-> 5],
     [v |-> 1, region |-> "NTSC", failAt |-> 2]}

\* the emulator as one record: its own fields e, the CPU c, the machine m
Whole == [e |-> emu, c |-> cpu, m |-> Mach]

\* Emulator.saveState()
SaveState(w) ==
    [v |-> 1, region |-> w.e.region, frame |-> w.e.frameCounter,
     cpu |-> w.c, ppu |-> w.m.ppu, apu |-> w.m.apu, bus |-> w.m.ram,
     input |-> w.m.ctl, audioWriteIdx |-> w.e.audioWriteIdx]

\* Emulator.stop()
Stop(e) == [e EXCEPT !.running = FALSE]

\* Emulator.setRegion(region)
SetRegion(e, region) == [e EXCEPT !.region = IF region = "PAL" THEN "PAL" ELSE "NTSC"]

\* the setState calls of loadState, in their order, the first n of them
RestoreComponents(w, state, n) ==
    [w EXCEPT !.m.ram = IF n >= 1 THEN state.bus ELSE @,
              !.c = IF n >= 2 THEN state.cpu ELSE @,
              !.m.ppu = IF n >= 3 THEN state.ppu ELSE @,
              !.m.apu = IF n >= 4 THEN state.apu ELSE @,
              !.m.ctl = IF n >= 5 THEN state.input ELSE @]

\* Emulator.loadState(state), the setState call number failAt + 1 throwing
\* (failAt = 5: none throws): the emulator afterwards and whether it threw
LoadState(w, state, failAt) ==
    LET Finish(w2) ==
            [w2 EXCEPT !.e.frameCounter = state.frame,
                       !.e.audioWriteIdx = 0,
                       !.e.nmiPrev = PpuNmiLine(w2.m.ppu)]
        Restored(w1) ==
            IF failAt < Len(Components)
            THEN [w |-> RestoreComponents(w1, state, failAt), thrown |-> TRUE]
            ELSE [w |-> Finish(RestoreComponents(w1, state, Len(Components))),
                  thrown |-> FALSE]
    IN  Restored([w EXCEPT !.e = SetRegion(Stop(w.e), state.region)])

SetWhole(w) ==
    /\ emu' = w.e
    /\ SetCpuState([c |-> w.c, m |-> w.m])

InitState ==
    /\ ctl = [p \in Ports |-> NewController]
    /\ ram = <<>>
    /\ apu = NewAPU
    /\ rom = ProgramRom
    /\ ppu = [NewPPU EXCEPT !.scanline = 245, !.status = \h80]
    /\ cpu = CPUreset([c |-> NewCPU,
                       m |-> [ram |-> <<>>, ppu |-> NewPPU,
                              ctl |-> [p \in Ports |-> NewController],
                              apu |-> NewAPU, rom |-> ProgramRom]]).c
    /\ emu = [NewEmu EXCEPT !.frameCounter = 3, !.running = TRUE]
    /\ plug = NewPlug
    /\ hist = [op |-> "none", nmiTotal |-> 0, edges |-> 0, lastSample |-> FALSE,
               cycles |-> 0, saved |-> <<>>, saves |-> 0, thrown |-> FALSE,
               arg |-> [v |-> 1, region |-> "NTSC", failAt |-> Len(Components)]]

\* saveState(), the host keeping the result
Save ==
    /\ hist.saves < MaxSaves
    /\ hist' = [hist EXCEPT !.op = "save", !.saved = <<SaveState(Whole)>>,
                            !.saves = hist.saves + 1, !.thrown = FALSE]
    /\ UNCHANGED <<ctl, ram, ppu, apu, cpu, rom, emu, plug>>

\* loadState(saveState())
SaveLoad ==
    /\ \E res \in {LoadState(Whole, SaveState(Whole), Len(Components))} :
          /\ SetWhole(res.w)
          /\ hist' = [hist EXCEPT !.op = "saveload", !.thrown = res.thrown]
    /\ UNCHANGED plug

\* loadState of the kept state, arriving as arg says
Load(arg) ==
    /\ hist.saved # <<>>
    /\ \E res \in {LoadState(Whole,
                             [hist.saved[1] EXCEPT !.v = arg.v, !.region = arg.region],
                             arg.failAt)} :
          /\ SetWhole(res.w)
          /\ hist' = [hist EXCEPT !.op = "load", !.thrown = res.thrown, !.arg = arg]
    /\ UNCHANGED plug

NextState ==
    \/ \E c \in Costs : hist.cycles < MaxStateCycles /\ StepInstr(c)
    \/ \E v \in CtrlValues : HostWriteCtrl(v)
    \/ Save
    \/ SaveLoad
    \/ \E arg \in LoadArgs : Load(arg)

SpecState == InitState /\ [][NextState]_vars

\* C15 as stated: loadState(saveState()) changes nothing observable: the
\* component sub-states, the frame index and the pending audio samples are
\* as before, and the next instruction leaves the CPU as it would have
\* without the pair.
C15_SaveLoadRoundTrip ==
    [][hist'.op = "saveload" =>
          LET Ran(np, c, m) ==
                  StepInstructionOn([c |-> c, m |-> m], np, FALSE, TRUE).st.c
          IN  /\ cpu' = cpu /\ ppu' = ppu /\ apu' = apu /\ ram' = ram /\ ctl' = ctl
              /\ emu'.frameCounter = emu.frameCounter
              /\ emu'.audioWriteIdx = emu.audioWriteIdx
              /\ Ran(emu'.nmiPrev, cpu', Mach') = Ran(emu.nmiPrev, cpu, Mach)]_vars

\* C16 as stated: loadState of a state of another version, or with a
\* component's restore failing, reports the failure and changes nothing but
\* the running flag: region, frame counter and every component sub-state are
\* as before.
C16_InvalidStateRejected ==
    [][(/\ hist'.op = "load"
        /\ hist'.arg.v # 1 \/ hist'.arg.failAt < Len(Components)) =>
           /\ hist'.thrown
           /\ emu' = Stop(emu)
           /\ cpu' = cpu /\ ppu' = ppu /\ apu' = apu /\ ram' = ram /\ ctl' = ctl]_vars

(***************************************************************************)
(* SpecRom: cartridge loading.  Operations: loadROM with an argument that  *)
(* is not a Uint8Array, with an image bus.loadCartridge rejects (it throws *)
(* and leaves the bus as it was) and with an image it accepts (the bus     *)
(* then holds the new cartridge); start(); and between them                *)
(* stepInstruction and the host's writes of PPUCTRL.  A behaviour starts   *)
(* as in SpecState.  hist is that of SpecNmi with the argument of the last *)
(* loadROM and whether it threw.                                           *)
(***************************************************************************)
MaxRomCycles == 4

VectorRom == [prg |-> PrgVectorOnly, chr |-> <<>>, sprite0 |-> FALSE]

RomArgs ==
    {[kind |-> "notBytes", image |-> EmptyRom],
     [kind |-> "rejected", image |-> VectorRom],
     [kind |-> "ok", image |-> VectorRom],
     [kind |-> "ok", image |-> ProgramRom]}

\* bus.loadCartridge(romBytes), the image accepted
BusLoadCartridge(m, image) == [m EXCEPT !.rom = image]

\* Emulator.reset() on the emulator as one record
ResetWhole(w) ==
    LET Cold(st) ==
            [e |-> [w.e EXCEPT !.frameCounter = 0, !.audioWriteIdx = 0,
                               !.nmiPrev = FALSE],
             c |-> st.c, m |-> st.m]
    IN  Cold(CPUreset([c |-> w.c, m |-> ComponentsReset(w.m)]))

\* (mutant of LoadROM: the reset performed before the cartridge is loaded)
LoadROMResetFirst(w, arg) ==
    IF arg.kind = "notBytes"
    THEN [w |-> w, thrown |-> TRUE]
    ELSE IF arg.kind = "rejected"
    THEN [w |-> ResetWhole([w EXCEPT !.e = Stop(w.e)]), thrown |-> TRUE]
    ELSE [w |-> ResetWhole([w EXCEPT !.e = Stop(w.e),
                                     !.m = BusLoadCartridge(w.m, arg.image)]),
          thrown |-> FALSE]

\* Emulator.loadROM(romBytes): the emulator afterwards and whether it threw
LoadROM(w, arg) ==
    IF arg.kind = "notBytes"
    THEN [w |-> w, thrown |-> TRUE]
    ELSE IF arg.kind = "rejected"
    THEN [w |-> [w EXCEPT !.e = Stop(w.e)], thrown |-> TRUE]
    ELSE [w |-> ResetWhole([w EXCEPT !.e = Stop(w.e),
                                     !.m = BusLoadCartridge(w.m, arg.image)]),
          thrown |-> FALSE]

InitRom ==
    /\ ctl = [p \in Ports |-> NewController]
    /\ ram = <<>>
    /\ apu = NewAPU
    /\ rom = ProgramRom
    /\ ppu = [NewPPU EXCEPT !.scanline = 245, !.status = \h80]
    /\ cpu = CPUreset([c |-> NewCPU,
                       m |-> [ram |-> <<>>, ppu |-> NewPPU,
                              ctl |-> [p \in Ports |-> NewController],
                              apu |-> NewAPU, rom |-> ProgramRom]]).c
    /\ emu = [NewEmu EXCEPT !.frameCounter = 3, !.running = TRUE]
    /\ plug = NewPlug
    /\ hist = [op |-> "none", nmiTotal |-> 0, edges |-> 0, lastSample |-> FALSE,
               cycles |-> 0, thrown |-> FALSE,
               arg |-> [kind |-> "ok", image |-> ProgramRom]]

\* Emulator.loadROM(romBytes)
LoadRomOp(arg) ==
    /\ \E res \in {LoadROM(Whole, arg)} :
          /\ SetWhole(res.w)
          /\ hist' = [hist EXCEPT !.op = "loadrom", !.thrown = res.thrown,
                                  !.arg = arg,
                                  !.lastSample = IF res.thrown THEN @ ELSE FALSE]
    /\ UNCHANGED plug

\* Emulator.start()
Start ==
    /\ emu' = [emu EXCEPT !.running = TRUE]
    /\ hist' = [hist EXCEPT !.op = "start"]
    /\ UNCHANGED <<ctl, ram, ppu, apu, cpu, rom, plug>>

NextRom ==
    \/ \E c \in Costs : hist.cycles < MaxRomCycles /\ StepInstr(c)
    \/ \E v \in CtrlValues : HostWriteCtrl(v)
    \/ \E arg \in RomArgs : LoadRomOp(arg)
    \/ Start

SpecRom == InitRom /\ [][NextRom]_vars

\* C17: a loadROM that fails (the argument is not a Uint8Array, or the bus
\* rejects the image) keeps the cartridge and performs no reset: CPU, PPU,
\* APU, RAM, input and the frame counter are as before; a loadROM that
\* succeeds leaves the scheduler stopped, the new cartridge in place and the
\* emulator cold-reset, the CPU at the new image's reset vector.
C17_LoadRomAllOrNothing ==
    [][hist'.op = "loadrom" =>
          /\ hist'.thrown = (hist'.arg.kind # "ok")
          /\ hist'.thrown =>
                /\ rom' = rom /\ cpu' = cpu /\ ppu' = ppu /\ apu' = apu
                /\ ram' = ram /\ ctl' = ctl
                /\ emu'.frameCounter = emu.frameCounter
                /\ emu'.nmiPrev = emu.nmiPrev
          /\ ~hist'.thrown =>
                /\ ~emu'.running
                /\ rom' = hist'.arg.image
                /\ ram' = <<>> /\ ppu' = NewPPU /\ apu' = NewAPU
                /\ ctl' = [p \in Ports |-> NewController]
                /\ emu'.frameCounter = 0 /\ ~emu'.nmiPrev
                /\ cpu'.A = 0 /\ cpu'.X = 0 /\ cpu'.Y = 0 /\ cpu'.SP = \hFD
                /\ cpu'.status = \h24
                /\ cpu'.PC = CellOf(hist'.arg.image.prg, \hFFFC)
                             + 256 * CellOf(hist'.arg.image.prg, \hFFFD)]_vars

\* C17 witness: after an NMI was taken and the scheduler started, the bus
\* rejected an image: the scheduler is stopped, the cartridge, the CPU in
\* its NMI handler and frame 3 are kept.
C17_Witness ==
    /\ hist.op = "loadrom" /\ hist.thrown /\ hist.arg.kind = "rejected"
    /\ ~emu.running /\ rom = ProgramRom /\ emu.frameCounter = 3
    /\ cpu.PC = \h9000 /\ cpu.SP = \hFA /\ hist.cycles > 0

(***************************************************************************)
(* SpecDiag: Emulator.runFrame with the CPU of cpu.js executing a program  *)
(* of opcodes that CPU.execute does not handle.  A behaviour starts after  *)
(* the program's loop ran LoopsRun times under stepInstruction since a     *)
(* cold start: the registers are those reset() left, the PPU stands in the *)
(* pre-render scanline with the VBlank flag still up, and the APU has      *)
(* counted one step per instruction.  Between two runFrame calls the host  *)
(* may call stepInstruction.  hist records the last operation, the *)
(* opcode cpu.step() fetched, the cycles it returned, the CPU as it left   *)
(* it, the CPU cycles of the behaviour and the FrameStats of the last      *)
(* return.                                                                 *)
(***************************************************************************)
MaxDiagCycles == 130

\* PRG image: reset at 0x8000, the other vectors 0
\*   8000: 0x02 (not handled); 0xEA (not handled); JMP $8000
PrgUnhandled ==
    (\h8000 :> \h02) @@ (\h8001 :> \hEA) @@ (\h8002 :> \h4C) @@ (\h8004 :> \h80) @@
    (\hFFFD :> \h80)

UnhandledRom == [prg |-> PrgUnhandled, chr |-> <<>>, sprite0 |-> FALSE]

\* the opcodes with a case in CPU.execute
HandledOpcodes ==
    {\hA9, \hAA, \hE8, \h85, \h8D, \h4C, \h00, \h69, \hE9, \h48, \h68}

\* the loop takes 3 instructions, 7 CPU cycles and 21 dots; after 4254 loops
\* the PPU stands at dot 333 of scanline 261
LoopsRun == 4239..4254

\* the emulator after n loops of the program
DiagStart(n) ==
    /\ ctl = [p \in Ports |-> NewController]
    /\ ram = <<>>
    /\ rom = UnhandledRom
    /\ apu = [NewAPU EXCEPT !.cycles = 3 * n, !.frameStep = (3 * n) \div 7457]
    /\ ppu = [NewPPU EXCEPT !.cycle = (21 * n) % 341,
                            !.scanline = (21 * n) \div 341,
                            !.status = \h80]
    /\ cpu = [NewCPU EXCEPT !.PC = \h8000]
    /\ emu = NewEmu
    /\ plug = NewPlug
    /\ hist = [op |-> "none", opcode |-> 0, cost |-> 0, afterStep |-> cpu,
               cycles |-> 0, nmiCalls |-> 0, calls |-> 0, stats |-> NoStats]

InitDiag == \E n \in LoopsRun : DiagStart(n)

\* FrameStats as runFrame would return them from the emulator e
FrameStats(e) ==
    [cpuCyclesRun |-> e.cpuCyclesRun,
     ppuCyclesRun |-> e.ppuCyclesRun,
     framesCompleted |-> e.framesCompleted,
     frameIndex |-> e.frameCounter + e.framesCompleted]

\* runFrame(): one iteration of the while loop with the CPU of cpu.js
RunFrameIteration ==
    /\ emu.pc = "loop"
    /\ RunFrameContinues(emu)
    /\ hist.cycles < MaxDiagCycles
    /\ \E s1 \in {CPUstep([c |-> cpu, m |-> Mach])} :
       \E loop \in {PpuLoop(PpuTicks(s1.cycles),
                            LoopStart(s1.st.m.ppu, emu.nmiPrev, emu.nmiPrev),
                            s1.st.m.rom, plug.ppuReports)} :
       \E a \in {APUstep(s1.st.m.apu, s1.st.m.rom)} :
          /\ SetCpuState(CPUirq(ApplyNmi(loop.nmiCalls,
                                         [s1.st EXCEPT !.m.ppu = loop.ppu,
                                                       !.m.apu = a]),
                                IrqAsserted(a, plug.mapperIrq)))
          /\ emu' = [emu EXCEPT !.cpuCyclesRun = emu.cpuCyclesRun + s1.cycles,
                                !.ppuCyclesRun = emu.ppuCyclesRun + loop.ticks,
                                !.framesCompleted = emu.framesCompleted + loop.frames,
                                !.nmiPrev = loop.nmiPrev]
          /\ hist' = [hist EXCEPT !.op = "step",
                                  !.opcode = ReadValue(cpu.PC),
                                  !.cost = s1.cycles,
                                  !.afterStep = s1.st.c,
                                  !.cycles = hist.cycles + s1.cycles]
          /\ UNCHANGED plug

\* stepInstruction() between two runFrame calls
DiagStepInstruction ==
    /\ emu.pc = "idle"
    /\ hist.cycles < MaxDiagCycles
    /\ \E res \in {StepInstructionOn([c |-> cpu, m |-> Mach], emu.nmiPrev,
                                     plug.mapperIrq, plug.ppuReports)} :
          /\ SetCpuState(res.st)
          /\ emu' = [emu EXCEPT !.nmiPrev = res.nmiPrev]
          /\ hist' = [hist EXCEPT !.op = "instr",
                                  !.opcode = ReadValue(cpu.PC),
                                  !.cost = res.cycles,
                                  !.afterStep = CPUstep([c |-> cpu, m |-> Mach]).st.c,
                                  !.cycles = hist.cycles + res.cycles]
          /\ UNCHANGED plug

NextDiag ==
    \/ RunFrameBegin
    \/ RunFrameIteration
    \/ RunFrameReturn
    \/ DiagStepInstruction

SpecDiag == InitDiag /\ [][NextDiag]_vars

\* C20: an iteration of runFrame whose cpu.step() fetches an opcode without
\* a case in execute accounts 2 cycles, leaves the CPU with PC advanced by 1
\* and A, X, Y, SP and P as they were, leaves memory as it was, and adds 1
\* to some counter of the FrameStats.
C20_UnhandledOpcodeIsCountedNop ==
    [][(hist'.op = "step" /\ hist'.opcode \notin HandledOpcodes) =>
          /\ hist'.cost = 2
          /\ hist'.afterStep = [cpu EXCEPT !.PC = cpu.PC + 1]
          /\ cpu' = hist'.afterStep
          /\ ram' = ram /\ rom' = rom /\ ctl' = ctl
          /\ ppu'.vram = ppu.vram /\ ppu'.oam = ppu.oam
          /\ \E f \in DOMAIN FrameStats(emu) :
                FrameStats(emu')[f] = FrameStats(emu)[f] + 1]_vars

\* the dots the PPU p stands into its frame of 262 scanlines of 341 dots
DotsIntoFrame(p) == p.scanline * 341 + p.cycle
FrameDots == 262 * 341

MaxResetSteps == 5
MaxResets == 2

\* PRG image: reset at 0x8000, the other vectors 0
\*   8000: LDA #$80; STA $10; JMP $8000
PrgStore ==
    (\h8000 :> \hA9) @@ (\h8001 :> \h80) @@ (\h8002 :> \h85) @@ (\h8003 :> \h10) @@
    (\h8004 :> \h4C) @@ (\h8006 :> \h80) @@ (\hFFFD :> \h80)

StoreRom == [prg |-> PrgStore, chr |-> <<>>, sprite0 |-> FALSE]

\* the emulator after loadROM, and after the first runFrame since: 3722
\* loops and LDA, STA make 29781 CPU cycles, the frame ending in the last
ResetStarts ==
    {[c |-> [NewCPU EXCEPT !.PC = \h8000], ram |-> <<>>, ppu |-> NewPPU,
      apu |-> NewAPU, frames |-> 0],
     [c |-> [NewCPU EXCEPT !.PC = \h8004, !.A = \h80, !.status = \hA4],
      ram |-> (16 :> \h80), ppu |-> [NewPPU EXCEPT !.cycle = 1],
      apu |-> [NewAPU EXCEPT !.cycles = 11168, !.frameStep = 1], frames |-> 1]}

InitReset ==
    \E s \in ResetStarts :
        /\ ctl = [p \in Ports |-> NewController]
        /\ ram = s.ram
        /\ ppu = s.ppu
        /\ apu = s.apu
        /\ cpu = s.c
        /\ rom = StoreRom
        /\ emu = [NewEmu EXCEPT !.frameCounter = s.frames]
        /\ plug = NewPlug
        /\ hist = [op |-> "none", beforeIrq |-> [c |-> NewCPU, ram |-> <<>>],
                   level |-> FALSE, steps |-> 0, nmis |-> 0, cost |-> 0,
                   order |-> <<>>, resets |-> 0]

\* (mutant of ResetCall: the CPU reset before the bus and the other
\* components)
ResetCallCpuFirst(i) ==
    CASE i = 1 -> "cpu"
      [] i = 2 -> "bus"
      [] i = 3 -> "apu"
      [] i = 4 -> "ppu"
      [] i = 5 -> "input"

\* Emulator.reset(): the component whose reset is the i-th call
ResetCall(i) ==
    CASE i = 1 -> "bus"
      [] i = 2 -> "apu"
      [] i = 3 -> "ppu"
      [] i = 4 -> "input"
      [] i = 5 -> "cpu"

ResetCalls == 5

\* the reset() of the component name on st = [c, m]
ResetOf(name, st) ==
    CASE name = "bus" -> [st EXCEPT !.m = MemReset(st.m)]
      [] name = "apu" -> [st EXCEPT !.m.apu = APUreset(st.m.apu)]
      [] name = "ppu" -> [st EXCEPT !.m.ppu = PPUreset(st.m.ppu)]
      [] name = "input" -> [st EXCEPT !.m.ctl = InputReset(st.m.ctl)]
      [] name = "cpu" -> CPUreset(st)

\* Emulator.reset(): entry, the three assignments
ResetBegin ==
    /\ emu.pc = "idle"
    /\ hist.resets < MaxResets
    /\ emu' = [emu EXCEPT !.pc = "reset", !.frameCounter = 0, !.audioWriteIdx = 0,
                          !.nmiPrev = FALSE]
    /\ hist' = [hist EXCEPT !.op = "resetBegin", !.order = <<>>,
                            !.resets = hist.resets + 1]
    /\ UNCHANGED <<ctl, ram, ppu, apu, cpu, rom, plug>>

\* Emulator.reset(): the next component's reset; reset() returns after the
\* last
ResetNext ==
    /\ emu.pc = "reset"
    /\ \E name \in {ResetCall(Len(hist.order) + 1)} :
          /\ SetCpuState(ResetOf(name, [c |-> cpu, m |-> Mach]))
          /\ hist' = [hist EXCEPT !.op = "resetCall",
                                  !.order = Append(hist.order, name)]
    /\ emu' = [emu EXCEPT !.pc = IF Len(hist.order) + 1 = ResetCalls
                                 THEN "idle" ELSE "reset"]
    /\ UNCHANGED plug

\* the host steps one instruction
ResetStepInstruction ==
    /\ emu.pc = "idle"
    /\ hist.steps < MaxResetSteps
    /\ StepInstruction(FALSE)

\* the host reports the key of player 1's A as pressed
ResetKeyDown ==
    /\ emu.pc = "idle"
    /\ ctl[1].buttons["A"] = 0
    /\ ctl' = InputHandleKey(ctl, "KeyZ", TRUE)
    /\ hist' = [hist EXCEPT !.op = "key"]
    /\ UNCHANGED <<ram, ppu, apu, cpu, rom, emu, plug>>

NextReset ==
    \/ ResetBegin
    \/ ResetNext
    \/ ResetStepInstruction
    \/ ResetKeyDown

SpecReset == InitReset /\ [][NextReset]_vars

\* C22: reset() resets the bus, the APU, the PPU, the controllers and then
\* the CPU: each component finds those before it already reset, the CPU
\* reads its vector through the reset bus, and when reset() returns the
\* frame counter, the pending audio count and the previous NMI sample are 0
\* / false.
C22_ResetOrder ==
    [][hist'.op = "resetCall" =>
          LET n == Len(hist'.order)
              last == hist'.order[Len(hist'.order)]
          IN  /\ hist'.order = SubSeq(<<"bus", "apu", "ppu", "input", "cpu">>, 1, n)
              /\ last = "apu" => ram = <<>>
              /\ last = "ppu" => ram = <<>> /\ apu = NewAPU
              /\ last = "input" => ram = <<>> /\ apu = NewAPU /\ ppu = NewPPU
              /\ last = "cpu" =>
                    /\ ram = <<>> /\ apu = NewAPU /\ ppu = NewPPU
                    /\ ctl = [p \in Ports |-> NewController]
                    /\ cpu'.PC = ReadValue(\hFFFC) + 256 * ReadValue(\hFFFD)
                    /\ emu'.pc = "idle"
                    /\ emu'.frameCounter = 0 /\ emu'.audioWriteIdx = 0
                    /\ ~emu'.nmiPrev]_vars

\* C22 witness: a reset() has returned that was called after instructions
\* that stored to RAM; RAM is clear, the CPU stands at the reset vector and
\* the frame counter is 0.
C22_Witness ==
    /\ hist.op = "resetCall" /\ Len(hist.order) = 5 /\ emu.pc = "idle"
    /\ hist.beforeIrq.ram # <<>> /\ hist.steps >= 2
    /\ ram = <<>> /\ ctl[1].buttons["A"] = 0
    /\ cpu.PC = \h8000 /\ cpu.A = 0 /\ emu.frameCounter = 0

(***************************************************************************)
(* SpecAudio: the audio path of the hub.  The plugged APU answers          *)
(* needSample() / sample(); a sample is [num, v]: whether sample()         *)
(* returned a number, and the number counted in halves (v = 3 stands for   *)
(* 1.5, and the range [-1, 1] is -2 .. 2).  A pump finds the APU wanting k *)
(* samples, the i-th sample produced since construction being SampleAt(i). *)
(* The sink is attached at construction or not at all.  hist records the   *)
(* last operation, the samples the APU handed out since the last reset,    *)
(* the batches the sink received since, and the samples and resets of the  *)
(* behaviour.                                                              *)
(***************************************************************************)
MaxSamples == 150
MaxAudioResets == 1

\* audioBatch as the constructor leaves it for a request of 64 or less
AudioBatch == 64

\* the samples one pump may find the APU wanting
PumpSizes == {0, 1, 40}

\* what sample() returns for the i-th sample
SampleAt(i) ==
    CASE i % 5 = 0 -> [num |-> TRUE, v |-> -3]
      [] i % 5 = 1 -> [num |-> TRUE, v |-> 1]
      [] i % 5 = 2 -> [num |-> FALSE, v |-> 0]
      [] i % 5 = 3 -> [num |-> TRUE, v |-> 4]
      [] i % 5 = 4 -> [num |-> TRUE, v |-> -2]

\* Emulator._flushAudio(): [e, out], out the batches handed to the sink
FlushAudio(e, sink) ==
    IF ~sink \/ e.audioWriteIdx = 0
    THEN [e |-> [e EXCEPT !.audioWriteIdx = 0], out |-> <<>>]
    ELSE [e |-> [e EXCEPT !.audioWriteIdx = 0],
          out |-> <<[i \in 1..e.audioWriteIdx |-> CellOf(e.audioAccumulator, i - 1)]>>]

\* (mutant of EnqueueSample: the sample stored as it came)
EnqueueSampleUnclipped(e, sink, s) ==
    LET Stored(e1) ==
            IF e1.audioWriteIdx >= AudioBatch THEN FlushAudio(e1, sink)
            ELSE [e |-> e1, out |-> <<>>]
    IN  Stored([e EXCEPT !.audioAccumulator = Store(@, e.audioWriteIdx, s),
                         !.audioWriteIdx = @ + 1])

\* Emulator._enqueueSample(s), s in halves
EnqueueSample(e, sink, s) ==
    LET clipped == IF s < -2 THEN -2 ELSE IF s > 2 THEN 2 ELSE s
        Stored(e1) ==
            IF e1.audioWriteIdx >= AudioBatch THEN FlushAudio(e1, sink)
            ELSE [e |-> e1, out |-> <<>>]
    IN  Stored([e EXCEPT !.audioAccumulator = Store(@, e.audioWriteIdx, clipped),
                         !.audioWriteIdx = @ + 1])

\* Emulator._pumpAudio(), the APU wanting the samples ss: [e, out, pulled]
RECURSIVE PumpAudio(_, _, _)
PumpAudio(e, sink, ss) ==
    LET Joined(prev, res) ==
            [e |-> res.e, out |-> prev.out \o res.out, pulled |-> prev.pulled + 1]
        PullOne(prev, s) ==
            Joined(prev, EnqueueSample(prev.e, sink, IF s.num THEN s.v ELSE 0))
    IN  IF ~sink \/ ss = <<>> THEN [e |-> e, out |-> <<>>, pulled |-> 0]
        ELSE CHOOSE res \in {PullOne(prev, ss[Len(ss)]) :
                                prev \in {PumpAudio(e, sink, SubSeq(ss, 1, Len(ss) - 1))}} :
                 TRUE

InitAudio ==
    /\ ctl = [p \in Ports |-> NewController]
    /\ ram = <<>>
    /\ ppu = NewPPU
    /\ apu = NewAPU
    /\ cpu = NewCPU
    /\ rom = EmptyRom
    /\ emu = NewEmu
    /\ plug \in {[NewPlug EXCEPT !.audioSink = sink] : sink \in BOOLEAN}
    /\ hist = [op |-> "none", produced |-> <<>>, delivered |-> <<>>,
               samples |-> 0, resets |-> 0]

\* _pumpAudio() with the APU wanting k samples
Pump(k) ==
    /\ hist.samples + k <= MaxSamples
    /\ \E res \in {PumpAudio(emu, plug.audioSink,
                             [i \in 1..k |-> SampleAt(hist.samples + i)])} :
          /\ emu' = res.e
          /\ hist' = [hist EXCEPT
                !.op = "pump",
                !.produced = @ \o [i \in 1..res.pulled |-> SampleAt(hist.samples + i)],
                !.delivered = @ \o res.out,
                !.samples = @ + res.pulled]
    /\ UNCHANGED <<ctl, ram, ppu, apu, cpu, rom, plug>>

\* Emulator.reset()
AudioReset ==
    /\ hist.resets < MaxAudioResets
    /\ SetWhole(ResetWhole(Whole))
    /\ hist' = [hist EXCEPT !.op = "reset", !.produced = <<>>, !.delivered = <<>>,
                            !.resets = @ + 1]
    /\ UNCHANGED plug

NextAudio ==
    \/ \E k \in PumpSizes : Pump(k)
    \/ AudioReset

SpecAudio == InitAudio /\ [][NextAudio]_vars

\* C24: with a sink attached, every batch the sink received holds exactly
\* audioBatch samples, the batches followed by the pending samples are the
\* samples handed out since the last reset, in order, a non-number as 0 and
\* each clipped to [-1, 1], and the pending count is in [0, audioBatch).
C24_FullBatchesInOrder ==
    plug.audioSink =>
        /\ \A b \in 1..Len(hist.delivered) : Len(hist.delivered[b]) = AudioBatch
        /\ emu.audioWriteIdx \in 0..(AudioBatch - 1)
        /\ Len(hist.produced) = AudioBatch * Len(hist.delivered) + emu.audioWriteIdx
        /\ \A i \in 1..Len(hist.produced) :
              LET s == hist.produced[i]
                  value == IF s.num THEN s.v ELSE 0
                  expected == IF value < -2 THEN -2 ELSE IF value > 2 THEN 2 ELSE value
                  b == (i - 1) \div AudioBatch
                  k == (i - 1) % AudioBatch
              IN  expected = IF b < Len(hist.delivered)
                             THEN hist.delivered[b + 1][k + 1]
                             ELSE CellOf(emu.audioAccumulator, k)

\* C24 witness: since a reset that dropped pending samples the sink
\* received a batch and 17 samples are pending.
C24_Witness ==
    /\ plug.audioSink /\ hist.resets = 1 /\ hist.samples > Len(hist.produced)
    /\ Len(hist.delivered) = 1 /\ emu.audioWriteIdx = 17

(***************************************************************************)
(* SpecStatus: PPUSTATUS read by the CPU.  The PPU is stepped dot by dot   *)
(* from 11 dots before scanline 241, the host writes PPUSCROLL on the      *)
(* PPU's register method, and the CPU reads 0x2002 and its mirrors through *)
(* Memory.  hist records the last operation, the address and the value of  *)
(* the last read, and the dots stepped.                                    *)
(***************************************************************************)
MaxStatusDots == 30

StatusAddrs == {\h2002, \h200A, \h3FFA}
ScrollBytes == {\h00, \h7D}

InitStatus ==
    /\ ctl = [p \in Ports |-> NewController]
    /\ ram = <<>>
    /\ ppu = [NewPPU EXCEPT !.scanline = 240, !.cycle = 330]
    /\ apu = NewAPU
    /\ cpu = NewCPU
    /\ rom = EmptyRom
    /\ emu = NewEmu
    /\ plug = NewPlug
    /\ hist = [op |-> "none", addr |-> 0, value |-> 0, dots |-> 0]

\* PPU.step()
StatusDot ==
    /\ hist.dots < MaxStatusDots
    /\ ppu' = PPUstep(ppu, rom)
    /\ hist' = [hist EXCEPT !.op = "dot", !.dots = @ + 1]
    /\ UNCHANGED <<ctl, ram, apu, cpu, rom, emu, plug>>

\* PPU.writeRegister(0x2005, v)
ScrollWrite(v) ==
    /\ ppu' = PPUwriteRegister(ppu, \h2005, v)
    /\ hist' = [hist EXCEPT !.op = "scroll"]
    /\ UNCHANGED <<ctl, ram, apu, cpu, rom, emu, plug>>

\* Memory.read(addr), addr 0x2002 or a mirror of it
StatusBusRead(addr) ==
    /\ \E res \in {MemRead(Mach, addr)} :
          /\ SetMach(res.m)
          /\ hist' = [hist EXCEPT !.op = "read", !.addr = addr, !.value = res.value]
    /\ UNCHANGED <<cpu, emu, plug>>

NextStatus ==
    \/ StatusDot
    \/ \E v \in ScrollBytes : ScrollWrite(v)
    \/ \E addr \in StatusAddrs : StatusBusRead(addr)

SpecStatus == InitStatus /\ [][NextStatus]_vars

\* C25: a CPU read of 0x2002 or of a mirror of it returns the PPU's status
\* register, clears status bit 7 and the write toggle, and leaves the rest
\* of the PPU and of the machine as it was.
C25_StatusReadClearsVBlank ==
    [][hist'.op = "read" =>
          /\ hist'.value = ppu.status
          /\ ppu' = [ppu EXCEPT !.status = And(ppu.status, \h7F),
                                !.writeToggle = 0]
          /\ ram' = ram /\ apu' = apu /\ ctl' = ctl /\ rom' = rom]_vars

(***************************************************************************)
(* SpecApu: the APU's frame counter.  Operations: APU.step(), one CPU      *)
(* cycle, and writes of 0x4017 and reads of 0x4015 on the APU's register   *)
(* methods.  A behaviour starts with the constructed APU or 3 cycles       *)
(* before its first or its third sequencer step.  hist records the last    *)
(* operation, bit 6 of the last value written to 0x4017 (the inhibit), and *)
(* the cycles stepped.                                                     *)
(***************************************************************************)
MaxApuCycles == 8

ApuStarts ==
    {[cycles |-> 0, frameStep |-> 0],
     [cycles |-> 7454, frameStep |-> 0],
     [cycles |-> 22368, frameStep |-> 2]}

FrameCounterValues == {\h00, \h40, \h80, \hC0}

InitApu ==
    /\ ctl = [p \in Ports |-> NewController]
    /\ ram = <<>>
    /\ ppu = NewPPU
    /\ apu \in {[NewAPU EXCEPT !.cycles = s.cycles, !.frameStep = s.frameStep] :
                   s \in ApuStarts}
    /\ cpu = NewCPU
    /\ rom = EmptyRom
    /\ emu = NewEmu
    /\ plug = NewPlug
    /\ hist = [op |-> "none", inhibit |-> FALSE, cycles |-> 0]

\* APU.step()
ApuCycle ==
    /\ hist.cycles < MaxApuCycles
    /\ apu' = APUstep(apu, rom)
    /\ hist' = [hist EXCEPT !.op = "cycle", !.cycles = @ + 1]
    /\ UNCHANGED <<ctl, ram, ppu, cpu, rom, emu, plug>>

\* APU.write(0x4017, v)
FrameCounterWrite(v) ==
    /\ apu' = APUwrite(apu, \h4017, v)
    /\ hist' = [hist EXCEPT !.op = "write", !.inhibit = And(v, \h40) # 0]
    /\ UNCHANGED <<ctl, ram, ppu, cpu, rom, emu, plug>>

\* APU.read(0x4015)
ApuStatusRead ==
    /\ apu' = APUread(apu, \h4015).a
    /\ hist' = [hist EXCEPT !.op = "read"]
    /\ UNCHANGED <<ctl, ram, ppu, cpu, rom, emu, plug>>

NextApu ==
    \/ ApuCycle
    \/ \E v \in FrameCounterValues : FrameCounterWrite(v)
    \/ ApuStatusRead

SpecApu == InitApu /\ [][NextApu]_vars

\* C30: the frame IRQ flag rises only in an APU cycle that makes the last
\* step of the 4-step sequence, and only when not inhibited; after a write
\* of 0x4017 with bit 6 set the flag is false until a write with bit 6
\* clear; in 5-step mode no cycle sets the flag.
C30_FrameIrqOnlyWhenAllowed ==
    [][/\ (apu'.frameIRQ /\ ~apu.frameIRQ) =>
             /\ hist'.op = "cycle"
             /\ apu.frameCounterMode = 0
             /\ apu.frameStep = 2 /\ apu'.frameStep = 3
             /\ ~hist.inhibit
       /\ hist'.inhibit => ~apu'.frameIRQ]_vars

(***************************************************************************)
(* SpecDmc: the DMC channel behind the APU's registers.  Operations:       *)
(* Memory.write of 0x4010-0x4013 and of 0x4015, Memory.read of 0x4015 and  *)
(* APU.step(), one CPU cycle.  The cartridge holds sample bytes at 0xC000  *)
(* and 0xC001 and reads as 0 at 0xC040.  A behaviour starts with the       *)
(* constructed APU or 3 cycles before its third sequencer step.  hist      *)
(* records the last operation, the                                         *)
(* cycles stepped, the register writes made, the bit the last step shifted *)
(* out (-1 for none), the output level before it, and whether a sample     *)
(* has ended without looping since 0x4015 last enabled the channel.        *)
(***************************************************************************)
MaxDmcCycles == 20
MaxDmcWrites == 3

PrgSample ==
    (\hC000 :> \h55) @@ (\hC001 :> \hFF)

SampleRom == [prg |-> PrgSample, chr |-> <<>>, sprite0 |-> FALSE]

DmcRegisterValues ==
    (\h4010 :> {\h00, \h40, \h80, \hC0}) @@
    (\h4011 :> {\h01, \hFF}) @@
    (\h4012 :> {\h00, \h01}) @@
    (\h4013 :> {\h00, \h01})

EnableValues == {\h00, \h10}

DmcStarts ==
    {[cycles |-> 0, frameStep |-> 0],
     [cycles |-> 22368, frameStep |-> 2]}

InitDmc ==
    /\ ctl = [p \in Ports |-> NewController]
    /\ ram = <<>>
    /\ ppu = NewPPU
    /\ apu \in {[NewAPU EXCEPT !.cycles = s.cycles, !.frameStep = s.frameStep] :
                   s \in DmcStarts}
    /\ cpu = NewCPU
    /\ rom = SampleRom
    /\ emu = NewEmu
    /\ plug = NewPlug
    /\ hist = [op |-> "none", cycles |-> 0, writes |-> 0, bit |-> -1,
               before |-> 64, ended |-> FALSE]

\* DMCChannel.step() calls fetchSample() and fetchSample() reads a byte
DMCfetches(d) ==
    d.enabled /\ d.bitsRemaining = 0 /\ d.bufferEmpty /\ d.currentLength > 0

\* the bit DMCChannel.step() shifts out on the way from d to d2, -1 for none
ShiftedBit(d, d2) ==
    IF ~d.enabled THEN -1
    ELSE IF d.bitsRemaining > 0 THEN And(d.shiftRegister, 1)
    ELSE IF d2.bitsRemaining = 7 THEN And(d2.sampleBuffer, 1)
    ELSE -1

\* APU.step()
DmcCycle ==
    /\ hist.cycles < MaxDmcCycles
    /\ apu' = APUstep(apu, rom)
    /\ hist' = [hist EXCEPT !.op = "cycle", !.cycles = @ + 1,
                            !.bit = ShiftedBit(apu.dmc, apu'.dmc),
                            !.before = apu.dmc.outputLevel,
                            !.ended = \/ hist.ended
                                      \/ /\ DMCfetches(apu.dmc)
                                         /\ apu.dmc.currentLength = 1
                                         /\ ~apu.dmc.loop]
    /\ UNCHANGED <<ctl, ram, ppu, cpu, rom, emu, plug>>

\* Memory.write(addr, v), addr in 0x4010-0x4013
DmcWrite(addr, v) ==
    /\ hist.writes < MaxDmcWrites
    /\ SetMach(MemWrite(Mach, addr, v))
    /\ hist' = [hist EXCEPT !.op = "write", !.writes = @ + 1]
    /\ UNCHANGED <<cpu, emu, plug>>

\* Memory.write(0x4015, v)
EnableWrite(v) ==
    /\ hist.writes < MaxDmcWrites
    /\ SetMach(MemWrite(Mach, \h4015, v))
    /\ hist' = [hist EXCEPT !.op = "enable", !.writes = @ + 1,
                            !.ended = IF And(v, 16) # 0 THEN FALSE ELSE hist.ended]
    /\ UNCHANGED <<cpu, emu, plug>>

\* Memory.read(0x4015)
DmcStatusRead ==
    /\ SetMach(MemRead(Mach, \h4015).m)
    /\ hist' = [hist EXCEPT !.op = "read"]
    /\ UNCHANGED <<cpu, emu, plug>>

NextDmc ==
    \/ DmcCycle
    \/ \E addr \in DOMAIN DmcRegisterValues :
          \E v \in DmcRegisterValues[addr] : DmcWrite(addr, v)
    \/ \E v \in EnableValues : EnableWrite(v)
    \/ DmcStatusRead

SpecDmc == InitDmc /\ [][NextDmc]_vars

\* C31: the DMC output level stays in 0..127, bitsRemaining in 0..8 and the
\* remaining sample length is never negative; a step that shifts out a 1
\* raises the level by exactly 2, one that shifts out a 0 lowers it by
\* exactly 2, and either leaves the level as it was when the change would
\* leave 0..127; a step that shifts out no bit leaves the level alone.
C31_DmcOutputInRange ==
    /\ [](/\ apu.dmc.outputLevel \in 0..127
          /\ apu.dmc.bitsRemaining \in 0..8
          /\ apu.dmc.currentLength >= 0)
    /\ [][hist'.op = "cycle" =>
             LET level == apu.dmc.outputLevel
                 moved == IF hist'.bit = 1 THEN level + 2
                          ELSE IF hist'.bit = 0 THEN level - 2
                          ELSE level
             IN  apu'.dmc.outputLevel = IF moved \in 0..127 THEN moved ELSE level]_vars

\* a step shifted out a 1 at level 127 and the level stayed there, and the
\* sample length has gone down to 0
C31_Witness ==
    /\ hist.op = "cycle"
    /\ hist.bit = 1
    /\ hist.before = 127
    /\ apu.dmc.outputLevel = 127
    /\ apu.dmc.currentLength = 0

MaxAckLen == 4

AckAccesses ==
    {[kind |-> "read", addr |-> \h4015, v |-> 0]} \cup
    {[kind |-> "write", addr |-> \h4015, v |-> v] : v \in {\h00, \h10}} \cup
    {[kind |-> "write", addr |-> \h4010, v |-> v] : v \in {\h00, \h40, \h80}} \cup
    {[kind |-> "write", addr |-> \h4017, v |-> v] : v \in {\h00, \h40, \h80, \hC0}}

\* the APU after the access acc
ApuAccess(a, acc) ==
    IF acc.kind = "read" THEN APUread(a, acc.addr).a
    ELSE APUwrite(a, acc.addr, acc.v)

\* the APUs that up to n accesses can make of the APUs in S
RECURSIVE AfterAccesses(_, _)
AfterAccesses(S, n) ==
    IF n = 0 THEN S
    ELSE AfterAccesses(S \cup {ApuAccess(a, acc) : a \in S, acc \in AckAccesses},
                       n - 1)

\* C33: whenever the APU's IRQ line (frame IRQ or DMC IRQ) is asserted, some
\* sequence of reads of 0x4015 and writes of 0x4015, 0x4010 and 0x4017
\* brings the APU to a state where APU.getIRQ() is false.
C33_IrqCanBeDeasserted ==
    APUgetIRQ(apu) =>
        \E a \in AfterAccesses({apu}, MaxAckLen) : ~APUgetIRQ(a)

(***************************************************************************)
(* SpecPorts: the bus at 0x4016-0x401F.  Operations: Memory.write of       *)
(* 0x4016 and 0x4017, Memory.read of 0x4016-0x401F, and APU.step().        *)
(* Player 1 holds A and Start, player 2 holds B; the APU starts 3 cycles   *)
(* before its third sequencer step, in 4-step mode.  hist records the last *)
(* operation with its address and value and the cycles stepped.            *)
(***************************************************************************)
MaxPortCycles == 4

PortWriteAddrs == {\h4016, \h4017}
PortReadAddrs == {\h4016, \h4017, \h4018, \h401F}
PortValues == {\h00, \h01, \h40, \h80}

HeldButtons ==
    (1 :> [b \in ButtonNames |-> IF b \in {"A", "Start"} THEN 1 ELSE 0]) @@
    (2 :> [b \in ButtonNames |-> IF b = "B" THEN 1 ELSE 0])

InitPorts ==
    /\ ctl = [p \in Ports |-> [NewController EXCEPT !.buttons = HeldButtons[p]]]
    /\ ram = <<>>
    /\ ppu = NewPPU
    /\ apu = [NewAPU EXCEPT !.cycles = 22368, !.frameStep = 2]
    /\ cpu = NewCPU
    /\ rom = EmptyRom
    /\ emu = NewEmu
    /\ plug = NewPlug
    /\ hist = [op |-> "none", addr |-> 0, value |-> 0, cycles |-> 0]

\* Memory.write(addr, v)
PortsWrite(addr, v) ==
    /\ SetMach(MemWrite(Mach, addr, v))
    /\ hist' = [hist EXCEPT !.op = "write", !.addr = addr, !.value = v]
    /\ UNCHANGED <<cpu, emu, plug>>

\* Memory.read(addr)
PortsRead(addr) ==
    /\ \E res \in {MemRead(Mach, addr)} :
          /\ SetMach(res.m)
          /\ hist' = [hist EXCEPT !.op = "read", !.addr = addr, !.value = res.value]
    /\ UNCHANGED <<cpu, emu, plug>>

\* APU.step()
PortsCycle ==
    /\ hist.cycles < MaxPortCycles
    /\ apu' = APUstep(apu, rom)
    /\ hist' = [hist EXCEPT !.op = "cycle", !.cycles = @ + 1]
    /\ UNCHANGED <<ctl, ram, ppu, cpu, rom, emu, plug>>

NextPorts ==
    \/ \E addr \in PortWriteAddrs, v \in PortValues : PortsWrite(addr, v)
    \/ \E addr \in PortReadAddrs : PortsRead(addr)
    \/ PortsCycle

SpecPorts == InitPorts /\ [][NextPorts]_vars

\* C34: a bus write of 0x4016 sets the strobe of both controllers to bit 0
\* of the value; a bus write of 0x4017 sets the APU's frame counter mode to
\* bit 7 of the value, clears the frame IRQ when bit 6 is set, and leaves
\* the controllers as they were; a bus read of 0x4016 returns what port 1
\* returns and a read of 0x4017 what port 2 returns; a read of
\* 0x4018-0x401F returns 0.
C34_PortDecode ==
    [][/\ (hist'.op = "write" /\ hist'.addr = \h4016) =>
             \A p \in Ports : ctl'[p].strobe = And(hist'.value, 1)
       /\ (hist'.op = "write" /\ hist'.addr = \h4017) =>
             /\ apu'.frameCounterMode = And(Shr(hist'.value, 7), 1)
             /\ (And(hist'.value, \h40) # 0 => ~apu'.frameIRQ)
             /\ ctl' = ctl
       /\ (hist'.op = "read" /\ hist'.addr = \h4016) =>
             hist'.value = ControllerRead(ctl[1]).value
       /\ (hist'.op = "read" /\ hist'.addr = \h4017) =>
             hist'.value = ControllerRead(ctl[2]).value
       /\ (hist'.op = "read" /\ hist'.addr \in \h4018..\h401F) =>
             hist'.value = 0]_vars

(***************************************************************************)
(* SpecStack: the CPU of SpecCpu, with the same operations and the same    *)
(* record of them, on cartridges that pull more than was pushed and that   *)
(* run up to the top of the address space.                                 *)
(***************************************************************************)
\* PRG image: reset, NMI and IRQ/BRK at 0x8000
\*   8000: PLA; PLA; PLA; PLA; PHA; JMP $8000
PrgPulls ==
    (\h8000 :> \h68) @@ (\h8001 :> \h68) @@ (\h8002 :> \h68) @@ (\h8003 :> \h68) @@
    (\h8004 :> \h48) @@ (\h8005 :> \h4C) @@ (\h8007 :> \h80) @@
    (\hFFFB :> \h80) @@ (\hFFFD :> \h80) @@ (\hFFFF :> \h80)

\* PRG image: reset at 0xFFFE, where the two bytes of LDA #$80 end the
\* address space
PrgTop ==
    (\hFFFC :> \hFE) @@ (\hFFFD :> \hFF) @@ (\hFFFE :> \hA9) @@ (\hFFFF :> \h80)

StackImages ==
    {[prg |-> PrgPulls, chr |-> <<>>, sprite0 |-> FALSE],
     [prg |-> PrgTop, chr |-> <<>>, sprite0 |-> FALSE]}

InitStack ==
    /\ ctl = [p \in Ports |-> NewController]
    /\ ram = <<>>
    /\ ppu = NewPPU
    /\ apu = NewAPU
    /\ cpu = NewCPU
    /\ rom \in StackImages
    /\ emu = NewEmu
    /\ plug = NewPlug
    /\ hist = [op |-> "none", beforeIrq |-> [c |-> NewCPU, ram |-> <<>>],
               level |-> FALSE, steps |-> 0, nmis |-> 0, cost |-> 0]

NextStack ==
    \/ CpuResetOp
    \/ CpuNmiOp
    \/ \E mapperLine \in BOOLEAN : StepInstruction(mapperLine)

SpecStack == InitStack /\ [][NextStack]_vars

\* C35: after any sequence of instructions, resets and interrupts SP is in
\* 0..0xFF, so that a stack access at 0x0100 + SP lies in 0x0100-0x01FF, and
\* PC is in 0..0xFFFF.
C35_RegisterWidths ==
    /\ cpu.SP \in 0..\hFF
    /\ \h0100 + cpu.SP \in \h0100..\h01FF
    /\ cpu.PC \in 0..\hFFFF

(***************************************************************************)
(* SpecAlu: CPU.adc(value) and CPU.sbc(value) as functions of the          *)
(* accumulator, the operand and the status register.  A behaviour starts   *)
(* with any accumulator, any operand, the carry set or clear, and the      *)
(* decimal flag and Z, V, N all clear or all set, and makes one call.      *)
(* hist records the call made and its operand.                             *)
(***************************************************************************)
Bytes == 0..\hFF

AluStatuses ==
    {\h24 + c + other : c \in {0, FlagC},
                        other \in {0, FlagD + FlagZ + FlagV + FlagN}}

InitAlu ==
    /\ ctl = [p \in Ports |-> NewController]
    /\ ram = <<>>
    /\ ppu = NewPPU
    /\ apu = NewAPU
    /\ cpu \in {[NewCPU EXCEPT !.A = a, !.status = p] : a \in Bytes, p \in AluStatuses}
    /\ rom = EmptyRom
    /\ emu = NewEmu
    /\ plug = NewPlug
    /\ hist \in {[op |-> "none", m |-> m] : m \in Bytes}

\* CPU.adc(hist.m)
AdcOp ==
    /\ hist.op = "none"
    /\ cpu' = Adc([c |-> cpu, m |-> Mach], hist.m).c
    /\ hist' = [hist EXCEPT !.op = "adc"]
    /\ UNCHANGED <<ctl, ram, ppu, apu, rom, emu, plug>>

\* CPU.sbc(hist.m)
SbcOp ==
    /\ hist.op = "none"
    /\ cpu' = Sbc([c |-> cpu, m |-> Mach], hist.m).c
    /\ hist' = [hist EXCEPT !.op = "sbc"]
    /\ UNCHANGED <<ctl, ram, ppu, apu, rom, emu, plug>>

NextAlu ==
    \/ AdcOp
    \/ SbcOp

SpecAlu == InitAlu /\ [][NextAlu]_vars

\* C36: ADC of M leaves A = (A + M + C) mod 256, C = 1 iff A + M + C > 255,
\* Z = 1 iff that 8-bit result is 0, N = its bit 7 and V = 1 iff
\* (~(A ^ M) & (A ^ R) & 0x80) # 0, A being the accumulator before; SBC of M
\* leaves what ADC of ~M & 0xFF leaves; the decimal flag changes nothing and
\* is not changed, nor are the I, B and U bits.
C36_AdcSbc ==
    [][hist'.op \in {"adc", "sbc"} =>
          \A a \in {cpu.A}, c \in {IF And(cpu.status, FlagC) # 0 THEN 1 ELSE 0},
             m \in {IF hist'.op = "sbc" THEN And(255 - hist.m, \hFF) ELSE hist.m},
             p \in {cpu'.status} :
             \A r \in {(a + m + c) % 256} :
                LET Bit(flag, on) == And(p, flag) = IF on THEN flag ELSE 0
                IN  /\ cpu'.A = r
                    /\ Bit(FlagC, a + m + c > 255)
                    /\ Bit(FlagZ, r = 0)
                    /\ Bit(FlagN, r >= 128)
                    /\ Bit(FlagV, And(And(And(255 - Xor(a, m), \hFF), Xor(a, r)),
                                      \h80) # 0)
                    /\ Bit(FlagV, (a < 128) = (m < 128) /\ (a < 128) # (r < 128))
                    /\ And(p, FlagD + FlagI + FlagB + FlagU)
                          = And(cpu.status, FlagD + FlagI + FlagB + FlagU)
                    /\ cpu'.X = cpu.X /\ cpu'.Y = cpu.Y /\ cpu'.SP = cpu.SP
                    /\ cpu'.PC = cpu.PC]_vars

\* SBC of 0x01 from 0x80 with the carry set, in decimal mode, has left 0x7F
\* with C and V set and Z and N clear
C36_Witness ==
    /\ hist.op = "sbc" /\ hist.m = \h01
    /\ cpu.A = \h7F
    /\ And(cpu.status, FlagD) # 0
    /\ And(cpu.status, FlagC + FlagV + FlagZ + FlagN) = FlagC + FlagV

====
